---- MODULE Spec2Model ----
(***************************************************************************)
(* Model of the map_quest_renderer animation engine:                       *)
(*   - the shared Animation Core (js/map-init.js: createAnimationState,    *)
(*     createAnimationConfig, renderFrame) with the progress utilities of  *)
(*     js/zoom-utils.js;                                                   *)
(*   - the frame-exact driver (animate-frames.js: renderCinematicFrame and *)
(*     the capture loop);                                                  *)
(*   - the real-time driver (js/recorder.js: runPreview).                  *)
(*                                                                         *)
(* Conventions.  Times are integer milliseconds (the frame-exact driver's  *)
(* second-valued constants are multiplied by 1000).  A progress value is a *)
(* fraction pn/pd of two integers; thresholds are cum/total with cum the   *)
(* cumulative coordinate count, so every comparison of the code is done by *)
(* cross-multiplication (exact arithmetic).  The rounding of IEEE doubles  *)
(* is modelled where it decides an outcome: the thresholds returned by     *)
(* calculateSegmentProgressThresholds, the local progress at route progress*)
(* 1, and the icon angles.  Leg and waypoint indices keep the code's       *)
(* 0-based values; a sequence s of the model holds the code's s[i] at      *)
(* s[i + 1].                                                               *)
(***************************************************************************)
EXTENDS Integers, Sequences, FiniteSets, TLC

VARIABLES
    driver,         \* who calls renderFrame: "core", "sweep", "headings", "frames", "preview"
    faulty,         \* whether the rendering surface may throw on a projection call
    stops,          \* the route configuration (destinations JSON: the stops)
    routeSegments,  \* the legs built from the stops
    config,         \* createAnimationConfig(...)
    state,          \* createAnimationState(): the AnimationState
    elements,       \* the DOM elements renderFrame styles
    call,           \* the last renderFrame invocation and what it returned
    pauseLog,       \* the pauseAtSegment of every shouldPause=true returned so far
    fx,             \* the frame-exact driver: pauseState, capture loop, frame directory
    pv,             \* the real-time driver: the locals of runPreview/animate
    zu,             \* a caller of zoom-utils.js or of the icon orientation alone: its
                    \* inputs and the last call's result
    server          \* the recording server: isRecording, recordingProgress, the
                    \* recordAnimation calls in flight and the last response sent

vars == <<driver, faulty, stops, routeSegments, config, state, elements, call, pauseLog, fx, pv, zu,
          server>>

(***************************************************************************)
(* Bounds of the model.                                                    *)
(***************************************************************************)
\* the harness that calls renderFrame directly draws progress from k/ProgressSteps
ProgressSteps == 8
\* and stops asking for title frames that frame the camera after MaxFitBounds of them
MaxFitBounds == 2
\* display-refresh timestamps advance by 1..MaxStep ticks of TickMs milliseconds
TickMs == 250
MaxStep == 3
\* a resumed export finds the frames 0 .. k*ResumeStride-1 on disk, k in 0..MaxResumeAt
MaxResumeAt == 2
ResumeStride == 273
\* on a failing rendering surface every FaultStride-th frame of an export may fail
FaultStride == 97
\* the callers of zoom-utils.js take routes of up to MaxLegs legs of 1..MaxLegLen
\* coordinates, and progress values on a grid of GridSub points per coordinate that
\* runs Overshoot points beyond each end of [0,1]
\* calls of the icon orientation with one heading; heading changes in a sweep
MaxTurns == 130
MaxIdleTurns == 3
MaxHeadingCalls == 6
MaxLegs == 3
MaxLegLen == 3
GridSub == 2
Overshoot == 2

(***************************************************************************)
(* Program constants.                                                      *)
(***************************************************************************)
FPS == 30
F_TITLE_DURATION == 3000
F_PAN_DURATION == 2500
F_ROUTE_DURATION == 25000
F_END_DURATION == 2000
P_TITLE_DURATION == 3000
P_PAN_DURATION == 4000
P_END_DURATION == 3000
DefaultAnimationDuration == 15000
DefaultPauseMs == 500
DefaultMaxZoom == 15
DefaultStartZoom == 13
DefaultCloseZoom == 14

\* seg.pause === undefined
Undefined == -1
\* null (a marker not created yet, a timestamp not taken yet)
Null == -1

Min2(a, b) == IF a < b THEN a ELSE b
Max2(a, b) == IF a > b THEN a ELSE b

RECURSIVE SumSeq(_)
SumSeq(s) == IF s = <<>> THEN 0 ELSE s[1] + SumSeq(Tail(s))

IconKinds == {"bike", "car", "person", "backpacker", "none"}

(***************************************************************************)
(* Route configurations (the stops of a destinations file).  A stop gives  *)
(* the leg that ends at it: the number of coordinates the routing service  *)
(* returned, the icon, whether the stop has a label, and the pause in ms   *)
(* (Undefined when the file gives none).                                   *)
(***************************************************************************)
Stop(n, icon, label, pause) == [len |-> n, icon |-> icon, label |-> label, pause |-> pause]

RouteConfigs ==
    { <<Stop(3, "car", TRUE, Undefined)>>,
      <<Stop(10, "car", TRUE, Undefined), Stop(10, "backpacker", TRUE, Undefined)>>,
      <<Stop(10, "car", TRUE, 0), Stop(10, "backpacker", TRUE, Undefined)>>,
      <<Stop(10, "bike", TRUE, 1000), Stop(2, "bike", TRUE, 20), Stop(10, "person", TRUE, 500)>>,
      <<Stop(2, "person", FALSE, Undefined), Stop(4, "person", TRUE, 500), Stop(2, "car", TRUE, 0)>> }

\* routes with legs shorter than one frame of the export's route phase
LongRouteConfigs ==
    { <<Stop(2000, "car", TRUE, 500), Stop(2, "none", TRUE, 500), Stop(2003, "car", TRUE, 500)>>,
      <<Stop(2, "person", TRUE, 500), Stop(2, "bike", TRUE, 500), Stop(4000, "car", TRUE, 500)>>,
      \* the last leg is shorter than a frame and its pause, 20 ms, shorter than one too
      <<Stop(4000, "car", TRUE, 500), Stop(2, "car", TRUE, 20)>> }

\* a route whose shares 1/13, 6/13, 3/13 and 3/13 add up, in doubles, to more than 1
FourLegRouteConfigs ==
    { <<Stop(1, "person", TRUE, 500), Stop(6, "car", TRUE, 500),
        Stop(3, "car", FALSE, 500), Stop(3, "bike", TRUE, 500)>> }

\* the look-ahead point projected onto the traveler: no displacement on screen
NoHeading == <<0, 0>>

\* a route that changes the icon kind at every stop
MixedIconRouteConfigs ==
    { <<Stop(2, "car", TRUE, 500), Stop(2, "bike", TRUE, 500),
        Stop(2, "backpacker", TRUE, 500), Stop(2, "person", TRUE, 500)>> }

RouteConfigsOf(d) ==
    IF d = "frames" THEN RouteConfigs \cup LongRouteConfigs
    ELSE IF d = "sweep" THEN RouteConfigs \cup FourLegRouteConfigs
    ELSE IF d = "headings" THEN MixedIconRouteConfigs
    ELSE RouteConfigs

\* animate-frames.js builds a leg per stop: pause: stop.pause || 0.5
BuildSegmentFrames(stop) ==
    [len |-> stop.len, icon |-> stop.icon, toLabel |-> stop.label,
     pause |-> IF stop.pause = Undefined \/ stop.pause = 0 THEN DefaultPauseMs ELSE stop.pause]

\* recorder.js processRouteData: icon: stop.icon || 'person', pause: stop.pause ?? 0.5
BuildSegmentPreview(stop) ==
    [len |-> stop.len, icon |-> stop.icon, toLabel |-> stop.label,
     pause |-> IF stop.pause = Undefined THEN DefaultPauseMs ELSE stop.pause]

\* a caller that hands the stops to the Core as they are (pause possibly undefined)
BuildSegmentRaw(stop) ==
    [len |-> stop.len, icon |-> stop.icon, toLabel |-> stop.label, pause |-> stop.pause]

(***************************************************************************)
(* js/zoom-utils.js                                                        *)
(***************************************************************************)
\* thresholds[i] = cum[i] / total, cum[i] the coordinates of legs 0..i
calculateSegmentProgressThresholds(segs) ==
    [i \in 1..Len(segs) |-> SumSeq([j \in 1..i |-> segs[j].len])]

TotalLength(segs) == SumSeq([j \in 1..Len(segs) |-> segs[j].len])

\* The Numbers of lines 99-104 are IEEE 754 doubles. One in [2^-7, 2) is held exactly as
\* <<l2, l1, l0>>, its value times 2^60 written in base 2^20; its 53-bit significand
\* ends at bit Log2(l2) - 12 of l0.
Limb == 1048576

DoubleZero == <<0, 0, 0>>

DoubleOne == <<Limb, 0, 0>>

RECURSIVE Log2(_)
Log2(n) == IF n < 2 THEN 0 ELSE 1 + Log2(n \div 2)

RECURSIVE Pow2(_)
Pow2(k) == IF k <= 0 THEN 1 ELSE 2 * Pow2(k - 1)

Carry(x) ==
    <<x[1] + (x[2] + x[3] \div Limb) \div Limb, (x[2] + x[3] \div Limb) % Limb, x[3] % Limb>>

\* round to nearest, ties to even, dropping the bits below unit; inexact: the exact
\* value has bits below 2^-60
RoundDoubleAt(x, unit, inexact) ==
    IF 2 * (x[3] % unit) > unit
         \/ (2 * (x[3] % unit) = unit /\ (inexact \/ (x[3] \div unit) % 2 = 1))
    THEN Carry(<<x[1], x[2], x[3] - (x[3] % unit) + unit>>)
    ELSE <<x[1], x[2], x[3] - (x[3] % unit)>>

RoundDouble(x, inexact) == RoundDoubleAt(x, Pow2(Log2(x[1]) - 12), inexact)

\* the remainder left after k digits, in base 1024, of the quotient r / d
RECURSIVE DivisionRemainder(_, _, _)
DivisionRemainder(r, d, k) ==
    IF k = 0 THEN r ELSE DivisionRemainder((r * 1024) % d, d, k - 1)

\* the k-th digit, in base 1024, of the fractional part of n / d
DivisionDigit(n, d, k) == (DivisionRemainder(n % d, d, k - 1) * 1024) \div d

\* n / d in doubles, for whole numbers 0 < n < 2048 * d and d < 2^21
DoubleDiv(n, d) ==
    RoundDouble(<<(n \div d) * Limb + 1024 * DivisionDigit(n, d, 1) + DivisionDigit(n, d, 2),
                  1024 * DivisionDigit(n, d, 3) + DivisionDigit(n, d, 4),
                  1024 * DivisionDigit(n, d, 5) + DivisionDigit(n, d, 6)>>,
                DivisionRemainder(n % d, d, 6) # 0)

\* a + b in doubles
DoubleAdd(a, b) == RoundDouble(Carry(<<a[1] + b[1], a[2] + b[2], a[3] + b[3]>>), FALSE)

DoubleLess(a, b) ==
    \/ a[1] < b[1]
    \/ a[1] = b[1] /\ a[2] < b[2]
    \/ a[1] = b[1] /\ a[2] = b[2] /\ a[3] < b[3]

Borrow(x) ==
    <<x[1] - (IF x[2] - (IF x[3] < 0 THEN 1 ELSE 0) < 0 THEN 1 ELSE 0),
      (x[2] - (IF x[3] < 0 THEN 1 ELSE 0) + Limb) % Limb,
      (x[3] + Limb) % Limb>>

\* a - b in doubles, for a >= b
DoubleSub(a, b) == RoundDouble(Borrow(<<a[1] - b[1], a[2] - b[2], a[3] - b[3]>>), FALSE)

\* lines 99-104: cumulativeProgress after the first i legs, held times scale.  A
\* double operation on operands times a power of two gives its result times that
\* power, so a scale of 16 keeps all 53 bits of shares down to 2^-11.
RECURSIVE ScaledCumulativeDouble(_, _, _, _)
ScaledCumulativeDouble(segs, i, total, scale) ==
    IF i = 0 THEN DoubleZero
    ELSE DoubleAdd(ScaledCumulativeDouble(segs, i - 1, total, scale),
                   DoubleDiv(scale * segs[i].len, total))

CumulativeDouble(segs, i, total) == ScaledCumulativeDouble(segs, i, total, 1)

\* lines 94-107: how a call ends.  The function has no throw statement, reduce is given
\* an initial value and the loop body is not entered for an empty list, so a call on
\* an array of legs returns (for no legs, the empty array).
calculateSegmentProgressThresholdsOutcome(segs) ==
    "returned"

\* the thresholds as the doubles the function returns
SegmentProgressThresholdDoubles(segs) ==
    [i \in 1..Len(segs) |-> CumulativeDouble(segs, i, TotalLength(segs))]

\* lines 119-125 without the break: the last threshold greater than progress
FirstGreaterNoBreak(pn, pd, thr, total) ==
    LET greater == {i \in 1..Len(thr) : pn * total < thr[i] * pd}
    IN  IF greater = {} THEN 0 ELSE CHOOSE i \in greater : \A j \in greater : i >= j

\* line 120 had it compared with <= where the code compares with <
FirstGreaterOrEqual(pn, pd, thr, total) ==
    LET greater == {i \in 1..Len(thr) : pn * total <= thr[i] * pd}
    IN  IF greater = {} THEN 0 ELSE CHOOSE i \in greater : \A j \in greater : i <= j

\* lines 119-125: the 1-based position of the first threshold greater than progress
\* (0 when the loop ends without a break)
FirstGreater(pn, pd, thr, total) ==
    LET greater == {i \in 1..Len(thr) : pn * total < thr[i] * pd}
    IN  IF greater = {} THEN 0 ELSE CHOOSE i \in greater : \A j \in greater : i <= j

\* lines 128-132: segmentProgress = spn / spd of a leg from startCum to endCum
SegmentProgressOf(pn, pd, total, startCum, endCum) ==
    IF endCum - startCum > 0
    THEN [spn |-> Min2(pn * total - startCum * pd, pd * (endCum - startCum)),
          spd |-> pd * (endCum - startCum)]
    ELSE [spn |-> 1, spd |-> 1]

\* lines 116-134, given the position `first` the loop stopped at
SegmentInfoAt(pn, pd, thr, total, first, startCum, endCum) ==
    [currentSegment |-> first - 1,
     segmentStart |-> startCum,
     spn |-> SegmentProgressOf(pn, pd, total, startCum, endCum).spn,
     spd |-> SegmentProgressOf(pn, pd, total, startCum, endCum).spd]

SegmentInfoFrom(pn, pd, thr, total, first) ==
    IF first = 0
    \* no break: the last leg, segmentStartProgress left at the last threshold
    THEN SegmentInfoAt(pn, pd, thr, total, Len(thr), thr[Len(thr)],
                       IF thr[Len(thr)] = 0 THEN total ELSE thr[Len(thr)])
    ELSE SegmentInfoAt(pn, pd, thr, total, first,
                       IF first = 1 THEN 0 ELSE thr[first - 1],
                       IF thr[first] = 0 THEN total ELSE thr[first])

\* getSegmentInfo(1, thresholds) on the doubles thr (one is the double 1, held at the
\* scale of thr): whether segmentProgress is below 1.
\* No threshold but the last can exceed 1 (the others are at least a leg's share below
\* it). When the last does, the loop breaks at it (line 120), segmentStartProgress is
\* the threshold before it, and line 130 takes the minimum of 1 and the quotient
\* (1 - start) / (end - start), which in doubles is 1 only if the two are equal.
SegmentProgressBelowOneAtOne(thr, one) ==
    /\ Len(thr) > 0
    /\ DoubleLess(one, thr[Len(thr)])
    /\ DoubleLess(DoubleSub(one, IF Len(thr) = 1 THEN DoubleZero ELSE thr[Len(thr) - 1]),
                  DoubleSub(thr[Len(thr)],
                            IF Len(thr) = 1 THEN DoubleZero ELSE thr[Len(thr) - 1]))

\* getSegmentInfo(progress = pn/pd, thresholds = thr/total)
getSegmentInfo(pn, pd, thr, total) ==
    SegmentInfoFrom(pn, pd, thr, total, FirstGreater(pn, pd, thr, total))

(***************************************************************************)
(* js/zoom-utils.js: zoom levels, keyframes and their interpolation.  A    *)
(* leg gives its explicit zoomLevel (Null when the stop sets none) and the *)
(* zoom map.getBoundsZoom answers for its bounds (autoZoom); a keyframe    *)
(* holds its progress as the cumulative count cum (progress = cum/total).  *)
(* An interpolated zoom is the fraction num/den.                           *)
(***************************************************************************)
Max3(a, b, c) == Max2(a, Max2(b, c))

\* line 17: options.maxZoom || 15
EffectiveMaxZoom(options) ==
    IF options.maxZoom = Undefined \/ options.maxZoom = 0 THEN DefaultMaxZoom
    ELSE options.maxZoom

\* line 18: Math.min(options.defaultCloseZoom || 14, maxZoom)
EffectiveCloseZoom(options) ==
    Min2(IF options.defaultCloseZoom = Undefined \/ options.defaultCloseZoom = 0
         THEN DefaultCloseZoom ELSE options.defaultCloseZoom,
         EffectiveMaxZoom(options))

\* lines 24-35 had the explicit zoom been raised like the auto-fit zoom
SegmentZoomLevelRaisingExplicit(leg, options, overviewZoom) ==
    Min2(Max3(IF leg.zoomLevel # Null THEN leg.zoomLevel ELSE leg.autoZoom,
              overviewZoom, EffectiveCloseZoom(options)),
         EffectiveMaxZoom(options))

\* lines 24-35: the zoom of one leg
SegmentZoomLevel(leg, options, overviewZoom) ==
    Min2(IF leg.zoomLevel # Null
         THEN leg.zoomLevel
         ELSE Max3(leg.autoZoom, overviewZoom, EffectiveCloseZoom(options)),
         EffectiveMaxZoom(options))

calculateSegmentZoomLevels(legs, options, overviewZoom) ==
    [i \in 1..Len(legs) |-> SegmentZoomLevel(legs[i], options, overviewZoom)]

\* lines 45-60 without the start keyframe of line 49
createZoomKeyframesNoStart(segmentZoomLevels, thr) ==
    [i \in 1..Len(thr) |-> [cum |-> thr[i], zoom |-> segmentZoomLevels[i]]]

createZoomKeyframes(segmentZoomLevels, thr) ==
    <<[cum |-> 0, zoom |-> segmentZoomLevels[1]]>>
    \o [i \in 1..Len(thr) |-> [cum |-> thr[i], zoom |-> segmentZoomLevels[i]]]

\* lines 73-79 had the test never matched: always the first and the last keyframe
FindKeyframeNever(pn, pd, kfs, total) == 0

\* lines 73-79: the 1-based position of the first keyframe i with
\* kfs[i].progress <= progress <= kfs[i+1].progress (0 when the loop finds none)
FindKeyframe(pn, pd, kfs, total) ==
    LET m == {i \in 1..(Len(kfs) - 1) :
                 kfs[i].cum * pd <= pn * total /\ pn * total <= kfs[i + 1].cum * pd}
    IN  IF m = {} THEN 0 ELSE CHOOSE i \in m : \A j \in m : i <= j

\* line 84 had it read t * t * (3 - t)
SmoothStepOvershoot(n, d) == n * n * (3 * d - n)

\* line 84: smoothstep t*t*(3 - 2t) of t = n/d, as a numerator over d*d*d
SmoothStep(n, d) == n * n * (3 * d - 2 * n)

\* lines 82-86, with keyframeT = n/d
InterpolateAt(prev, next, n, d, lo) ==
    [num |-> prev.zoom * d * d * d + (next.zoom - prev.zoom) * SmoothStep(n, d),
     den |-> d * d * d,
     lo |-> lo]

\* lines 82-83: keyframeRange and keyframeT between the keyframes prev and next
InterpolateBetween(pn, pd, total, prev, next, lo) ==
    IF next.cum - prev.cum > 0
    THEN InterpolateAt(prev, next, pn * total - prev.cum * pd, pd * (next.cum - prev.cum), lo)
    ELSE InterpolateAt(prev, next, 0, 1, lo)

\* getInterpolatedZoom(progress = pn/pd, zoomKeyframes = kfs); lo is the position of
\* the keyframe pair the loop found (0: none, the first and last keyframes are used)
getInterpolatedZoom(pn, pd, kfs, total) ==
    CHOOSE z \in {IF lo = 0
                  THEN InterpolateBetween(pn, pd, total, kfs[1], kfs[Len(kfs)], 0)
                  ELSE InterpolateBetween(pn, pd, total, kfs[lo], kfs[lo + 1], lo) :
                  lo \in {FindKeyframe(pn, pd, kfs, total)}} : TRUE

(***************************************************************************)
(* Angles.  An angle in degrees is a signed double [neg, mag], mag held as *)
(* the doubles above (its value times 2^60 in three limbs, so an angle is  *)
(* below 1024 in magnitude).  Sums and differences of angles and their     *)
(* products with a smoothing factor are whole multiples of 2^-60, so each  *)
(* operation is the exact one followed by the rounding to 53 bits.         *)
(***************************************************************************)
Angle(neg, mag) == [neg |-> neg /\ mag # DoubleZero, mag |-> mag]

\* a whole number of degrees
Degrees(n) == Angle(n < 0, <<(IF n < 0 THEN 0 - n ELSE n) * Limb, 0, 0>>)

AngleNeg(a) == Angle(~a.neg, a.mag)

\* a + b
AngleAdd(a, b) ==
    IF a.neg = b.neg THEN Angle(a.neg, DoubleAdd(a.mag, b.mag))
    ELSE IF DoubleLess(a.mag, b.mag) THEN Angle(b.neg, DoubleSub(b.mag, a.mag))
    ELSE Angle(a.neg, DoubleSub(a.mag, b.mag))

\* a - b
AngleSub(a, b) == AngleAdd(a, AngleNeg(b))

\* a < b
AngleLess(a, b) ==
    IF a.neg /\ ~b.neg THEN TRUE
    ELSE IF ~a.neg /\ b.neg THEN FALSE
    ELSE IF a.neg THEN DoubleLess(b.mag, a.mag)
    ELSE DoubleLess(a.mag, b.mag)

\* the digits of a double in base 1024, lowest first
DoubleDigits(x) ==
    <<x[3] % 1024, x[3] \div 1024, x[2] % 1024, x[2] \div 1024,
      x[1] % 1024, (x[1] \div 1024) % 1024, x[1] \div Limb>>

\* digit k of the product of two digit strings, before the carries
ProductColumn(a, b, k) ==
    SumSeq([i \in 1..Len(a) |-> IF k - i + 1 \in 1..Len(b) THEN a[i] * b[k - i + 1] ELSE 0])

RECURSIVE CarryDigits(_, _, _)
CarryDigits(cols, k, carry) ==
    IF k > Len(cols) THEN <<carry>>
    ELSE <<(cols[k] + carry) % 1024>> \o CarryDigits(cols, k + 1, (cols[k] + carry) \div 1024)

\* the product of two digit strings
ProductDigits(a, b) ==
    CarryDigits([k \in 1..(Len(a) + Len(b) - 1) |-> ProductColumn(a, b, k)], 1, 0)

\* the double nearest to the product p of two doubles' digit strings (p is the
\* product times 2^120: its lowest six digits lie below 2^-60)
DoubleOfProduct(p) ==
    RoundDouble(<<p[11] + 1024 * p[12] + Limb * p[13], p[9] + 1024 * p[10], p[7] + 1024 * p[8]>>,
                \E k \in 1..6 : p[k] # 0)

\* a * b in doubles, for b < 1
DoubleMul(a, b) == DoubleOfProduct(ProductDigits(DoubleDigits(a), DoubleDigits(b)))

\* a * factor, for a positive factor below 1
AngleTimes(a, factor) == Angle(a.neg, DoubleMul(a.mag, factor))

\* the doubles nearest to 0.15, 0.03 and 0.5
Double015 == <<157286, 419430, 419424>>
Double003 == <<31457, 293601, 293600>>
DoubleHalf == <<524288, 0, 0>>

(***************************************************************************)
(* icons/icon-renderer.js.  A heading is the screen displacement <<dx, dy>>*)
(* between the traveler and the look-ahead point.                          *)
(***************************************************************************)
\* Math.atan2(dy, dx) * 180 / Math.PI for a heading along an axis or a diagonal,
\* for which the doubles are whole degrees
DirectionOf(hd) ==
    IF hd[2] = 0 THEN (IF hd[1] >= 0 THEN Degrees(0) ELSE Degrees(180))
    ELSE IF hd[1] = 0 THEN (IF hd[2] > 0 THEN Degrees(90) ELSE Degrees(-90))
    ELSE IF hd[1] > 0 THEN (IF hd[2] > 0 THEN Degrees(45) ELSE Degrees(-45))
    ELSE (IF hd[2] > 0 THEN Degrees(135) ELSE Degrees(-135))

\* while (a > 180) a -= 360; while (a < -180) a += 360
RECURSIVE NormalizeAngle(_)
NormalizeAngle(a) ==
    IF AngleLess(Degrees(180), a) THEN NormalizeAngle(AngleSub(a, Degrees(360)))
    ELSE IF AngleLess(a, Degrees(-180)) THEN NormalizeAngle(AngleAdd(a, Degrees(360)))
    ELSE a

AngleAbs(a) == Angle(FALSE, a.mag)

\* lines 16-37 ICON_CONFIG; an unknown kind gets the person's configuration (line 52)
IconRotates(iconType) == iconType \in {"bike", "car"}
IconDefaultFacing(iconType) == IF iconType \in {"bike", "backpacker"} THEN "left" ELSE "right"

\* lines 77-81 had the dead-band test been left out
SmoothedAngleNoDeadBand(lastAngle, angleDiff, factor, deadBand) ==
    AngleAdd(lastAngle, AngleTimes(angleDiff, factor))

\* icon-renderer.js lines 77-81 (map-init.js lines 770-772 and 788-790): the angle moves
\* a fraction of the way when the difference exceeds the dead-band
SmoothedAngle(lastAngle, angleDiff, factor, deadBand) ==
    IF AngleLess(Angle(FALSE, deadBand), AngleAbs(angleDiff))
    THEN AngleAdd(lastAngle, AngleTimes(angleDiff, factor))
    ELSE lastAngle

\* lines 72-84, given the normalised target angle
RotatedToward(targetAngle, lastAngle, factor) ==
    NormalizeAngle(SmoothedAngle(lastAngle, NormalizeAngle(AngleSub(targetAngle, lastAngle)),
                                 factor, DoubleHalf))

TransformOf(angle, scaleX) == [angle |-> angle, scaleX |-> scaleX, newLastAngle |-> angle]

\* lines 86-103 had the person's flip been used for every pedestrian kind
MirrorOfFacingRight(iconType, dx) == IF dx < 0 THEN -1 ELSE 1

\* lines 92-103: scaleX of an icon that does not rotate
MirrorOf(iconType, dx) ==
    IF IconDefaultFacing(iconType) = "right"
    THEN (IF dx < 0 THEN -1 ELSE 1)
    ELSE (IF dx < 0 THEN 1 ELSE -1)

\* calculateIconTransform(iconType, dx, dy, lastAngle, interpolationFactor), lines 51-111.
\* `facing` tells the two copies of the function apart: icon-renderer.js takes the
\* icons to face left at rotate(0deg) (targetAngle = 180 - directionAngle, line 66),
\* the copy in unnamed/part_007 to face right (targetAngle = directionAngle, line 72).
calculateIconTransform(facing, iconType, hd, lastAngle, factor) ==
    IF IconRotates(iconType)
    THEN TransformOf(RotatedToward(NormalizeAngle(IF facing = "left"
                                                  THEN AngleSub(Degrees(180), DirectionOf(hd))
                                                  ELSE DirectionOf(hd)),
                                   lastAngle, factor),
                     1)
    ELSE TransformOf(Degrees(0), MirrorOf(iconType, hd[1]))

(***************************************************************************)
(* js/map-init.js                                                          *)
(***************************************************************************)
\* state.animatedLine === null
NoLine == [legs |-> -1, index |-> 0, fn |-> 0, fd |-> 1, short |-> FALSE]

createAnimationState ==
    [ waypointMarkers |-> <<>>,    \* fillOpacity x 100 of each waypoint marker
      waypointLabels |-> <<>>,     \* opacity of each waypoint label
      waypointShown |-> <<>>,
      waypointFadedOut |-> <<>>,
      startMarker |-> Null,
      endMarker |-> Null,          \* Null, or the end marker's fillOpacity x 100
      endLabel |-> Null,
      titleCardShown |-> FALSE,
      dateStampShown |-> FALSE,
      startMarkerPlaced |-> FALSE,
      endMarkerPlaced |-> FALSE,
      iconsSetup |-> FALSE,
      lastPausedAfterSegment |-> -1,
      isPaused |-> FALSE,
      pauseProgress |-> 0,
      currentPauseDuration |-> 0,
      \* cameraLat, cameraLng, cameraZoom: not set ("none"), or what the smoothed camera
      \* was last steered toward: the start point (the pan phase) or the traveler's
      \* place on the route
      camera |-> [on |-> "none", at |-> NoLine],
      \* NoLine (null), or the polyline last drawn: the `legs` complete legs before the current
      \* one, the current leg's coordinates 0..index, and a last point interpolated
      \* fn/fd of the way to the next coordinate when fn > 0
      animatedLine |-> NoLine,
      \* not fields of the AnimationState but the map they refer to: how many start
      \* markers, end markers and waypoint marker/label pairs were added to it,
      \* whether the polyline of animatedLine is on it, and how many times its view
      \* was set by fitBounds
      layers |-> [startMarkers |-> 0, endMarkers |-> 0, waypointPairs |-> 0, line |-> FALSE,
                  fitBounds |-> 0],
      lastAngles |-> [bike |-> Degrees(0), car |-> Degrees(0), person |-> Degrees(0),
                      backpacker |-> Degrees(0)],
      \* not fields of the AnimationState: the style.transform of the four icon elements
      \* (scaleX and the rotation in degrees), the identity until renderFrame sets one
      transforms |-> [e \in {"motorcycle", "person", "car", "backpacker"} |->
                         [scaleX |-> 1, rotate |-> Degrees(0)]] ]

\* line 375: options.startZoomLevel || segmentZoomLevels[0] || 13
CloseZoomOf(startZoomLevel, segmentZoomLevels) ==
    IF startZoomLevel # Null /\ startZoomLevel # 0 THEN startZoomLevel
    ELSE IF Len(segmentZoomLevels) > 0 /\ segmentZoomLevels[1] # 0 THEN segmentZoomLevels[1]
    ELSE DefaultStartZoom

\* lines 483-489: the pan phase's targetZoom at phaseProgress pn/pd, a fraction:
\* overviewZoom + (closeZoom - overviewZoom) * (1 - (1 - phaseProgress)^3)
PanTargetZoom(pn, pd, overviewZoom, closeZoom) ==
    [num |-> overviewZoom * pd * pd * pd
             + (closeZoom - overviewZoom) * (pd * pd * pd - (pd - pn) * (pd - pn) * (pd - pn)),
     den |-> pd * pd * pd]

createAnimationConfig(segs) ==
    [ segmentProgressThresholds |-> calculateSegmentProgressThresholds(segs),
      totalLength |-> TotalLength(segs),
      segmentPauses |-> [i \in 1..Len(segs) |->
                            IF segs[i].pause # Undefined THEN segs[i].pause ELSE DefaultPauseMs] ]

\* the opacity of the four icon elements before the first route-phase call
InitialElements == [motorcycle |-> 0, person |-> 0, car |-> 0, backpacker |-> 0]

NoPause == [shouldPause |-> FALSE, pauseDuration |-> 0, pauseAtSegment |-> -1]

\* lines 506-558: the end marker and the waypoint marker/label pairs, created once
RECURSIVE LabelledBefore(_, _)
LabelledBefore(segs, k) ==
    IF k = 0 THEN 0
    ELSE LabelledBefore(segs, k - 1) + (IF segs[k].toLabel THEN 1 ELSE 0)

\* line 507 had it not tested state.endMarkerPlaced
SetupRouteEveryCall(st, segs) ==
    IF st.layers.endMarkers >= 2 THEN st
    ELSE LET w == LabelledBefore(segs, Len(segs) - 1)
         IN  [st EXCEPT !.endMarker = 0,
                        !.endLabel = 0,
                        !.layers.endMarkers = st.layers.endMarkers + 1,
                        !.layers.waypointPairs = st.layers.waypointPairs + w,
                        !.waypointMarkers = st.waypointMarkers \o [i \in 1..w |-> 0],
                        !.waypointLabels = st.waypointLabels \o [i \in 1..w |-> 0],
                        !.waypointShown = st.waypointShown \o [i \in 1..w |-> FALSE],
                        !.waypointFadedOut = st.waypointFadedOut \o [i \in 1..w |-> FALSE],
                        !.endMarkerPlaced = TRUE]

SetupRoute(st, segs) ==
    IF st.endMarkerPlaced THEN st
    ELSE LET w == LabelledBefore(segs, Len(segs) - 1)
         IN  [st EXCEPT !.endMarker = 0,
                        !.endLabel = 0,
                        !.layers.endMarkers = st.layers.endMarkers + 1,
                        !.layers.waypointPairs = st.layers.waypointPairs + w,
                        !.waypointMarkers = st.waypointMarkers \o [i \in 1..w |-> 0],
                        !.waypointLabels = st.waypointLabels \o [i \in 1..w |-> 0],
                        !.waypointShown = st.waypointShown \o [i \in 1..w |-> FALSE],
                        !.waypointFadedOut = st.waypointFadedOut \o [i \in 1..w |-> FALSE],
                        !.endMarkerPlaced = TRUE]

\* line 578 had it compared with # where the code compares with <
NeedsPauseNotEqual(st, currentSegment) ==
    currentSegment > 0 /\ st.lastPausedAfterSegment # currentSegment - 1

\* line 578: a pause is due when the leg index has moved past a leg not yet paused after
NeedsPause(st, currentSegment) ==
    currentSegment > 0 /\ st.lastPausedAfterSegment < currentSegment - 1

\* line 580: config.segmentPauses[currentSegment - 1] || 0.5
PauseDurationOf(cfg, k) ==
    IF cfg.segmentPauses[k + 1] = 0 THEN DefaultPauseMs ELSE cfg.segmentPauses[k + 1]

\* lines 591-595: routeProgress >= showThreshold of waypoint i
ReachedShowThreshold(i, pn, pd, cfg) ==
    LET thr == cfg.segmentProgressThresholds
        total == cfg.totalLength
    IN  IF i = 0
        THEN pn * total * 100 >= thr[1] * 33 * pd
        ELSE LET prev == thr[i]    \* thresholds[i-1] || 0
             IN  pn * total * 100 >= (thr[i + 1] * 100 - (thr[i + 1] - prev) * 67) * pd

\* line 590 without its test of waypointShown[i]
ShowsWaypointAlways(st, i, pn, pd, cfg) ==
    ReachedShowThreshold(i, pn, pd, cfg)

\* line 590: a waypoint not shown yet is shown once progress reaches its threshold
ShowsWaypoint(st, i, pn, pd, cfg) ==
    ~st.waypointShown[i + 1] /\ ReachedShowThreshold(i, pn, pd, cfg)

\* line 603: faded out 20% into the leg after it
FadesWaypoint(shownNow, st, i, seg) ==
    /\ shownNow
    /\ ~st.waypointFadedOut[i + 1]
    /\ seg.currentSegment > i
    /\ seg.spn * 5 > seg.spd

\* lines 590-607 for waypoint i: its flags and opacities after the iteration
WaypointAfter(st, i, pn, pd, cfg, seg) ==
    LET shows == ShowsWaypoint(st, i, pn, pd, cfg)
        fades == FadesWaypoint(st.waypointShown[i + 1] \/ shows, st, i, seg)
    IN  [shown |-> st.waypointShown[i + 1] \/ shows,
         fadedOut |-> st.waypointFadedOut[i + 1] \/ fades,
         marker |-> IF fades THEN 0 ELSE IF shows THEN 90 ELSE st.waypointMarkers[i + 1],
         label |-> IF fades THEN 0 ELSE IF shows THEN 1 ELSE st.waypointLabels[i + 1]]

\* lines 589-608
UpdateWaypoints(st, pn, pd, cfg, seg) ==
    [st EXCEPT
        !.waypointShown = [i \in 1..Len(st.waypointMarkers) |->
                              WaypointAfter(st, i - 1, pn, pd, cfg, seg).shown],
        !.waypointFadedOut = [i \in 1..Len(st.waypointMarkers) |->
                              WaypointAfter(st, i - 1, pn, pd, cfg, seg).fadedOut],
        !.waypointMarkers = [i \in 1..Len(st.waypointMarkers) |->
                              WaypointAfter(st, i - 1, pn, pd, cfg, seg).marker],
        !.waypointLabels = [i \in 1..Len(st.waypointMarkers) |->
                              WaypointAfter(st, i - 1, pn, pd, cfg, seg).label]]

\* the element that shows an icon kind (lines 628-642)
IconElementOf(kind) ==
    IF kind = "none" THEN "none"
    ELSE IF kind = "bike" THEN "motorcycle"
    ELSE IF kind = "car" THEN "car"
    ELSE IF kind = "backpacker" THEN "backpacker"
    ELSE "person"

\* lines 610-643 without the early fade-out of line 618
CurrentIconNoEarlyFade(segs, seg) == IconElementOf(segs[seg.currentSegment + 1].icon)

\* lines 610-643: the icon made opaque on this call ("none" when all are hidden)
CurrentIcon(segs, seg) ==
    LET cur == seg.currentSegment
        currentIconType == segs[cur + 1].icon
        nextIconType == IF cur + 1 < Len(segs) THEN segs[cur + 2].icon ELSE "null"
        iconWillChange == nextIconType # "null" /\ nextIconType # currentIconType
        shouldFadeOutEarly == iconWillChange /\ seg.spn * 100 > 95 * seg.spd
    IN  IF currentIconType # "none" /\ ~shouldFadeOutEarly
        THEN (IF currentIconType = "bike" THEN "motorcycle"
              ELSE IF currentIconType = "car" THEN "car"
              ELSE IF currentIconType = "backpacker" THEN "backpacker"
              ELSE "person")
        ELSE "none"

\* lines 628-642 had their last branch not been an else: the person icon shown with any kind
IconOpacitiesFallThrough(icon) ==
    [motorcycle |-> IF icon = "motorcycle" THEN 1 ELSE 0,
     person |-> IF icon # "none" THEN 1 ELSE 0,
     car |-> IF icon = "car" THEN 1 ELSE 0,
     backpacker |-> IF icon = "backpacker" THEN 1 ELSE 0]

\* lines 621-642: all four icons hidden, then the current one made opaque
IconOpacities(icon) ==
    [motorcycle |-> IF icon = "motorcycle" THEN 1 ELSE 0,
     person |-> IF icon = "person" THEN 1 ELSE 0,
     car |-> IF icon = "car" THEN 1 ELSE 0,
     backpacker |-> IF icon = "backpacker" THEN 1 ELSE 0]

(***************************************************************************)
(* renderFrame(params).  `throws` is the rendering surface's behaviour on  *)
(* this call: TRUE when its projection call (map.latLngToContainerPoint,   *)
(* line 737) raises.  The result is the state and elements the call leaves *)
(* behind, what it returned, and whether it threw.  Where a value of the   *)
(* code is used several times (st2, seg, st3) it is bound once, as the     *)
(* element of a one-element set.                                           *)
(***************************************************************************)
Returned(st, el, result, threw) ==
    [state |-> st, elements |-> el, result |-> result, threw |-> threw]

\* line 809 had it read routeProgress >= 0.85
RevealEndMarkerFrom85(st, pn, pd) ==
    [st EXCEPT !.endMarker = IF pn * 100 >= 85 * pd /\ st.endMarker # Null THEN 90
                             ELSE st.endMarker]

\* lines 808-813: the end marker is revealed near completion
RevealEndMarker(st, pn, pd) ==
    [st EXCEPT !.endMarker = IF pn * 100 >= 98 * pd /\ st.endMarker # Null THEN 90
                             ELSE st.endMarker]

\* lines 651-668: the traveler's place in a leg of len coordinates at local progress
\* spn/spd: safeIndex, and the fraction fn/fd of the way to the next coordinate
\* (spd is the route progress denominator times len unless the leg is over, spd = 1)
TravelerAt(len, spn, spd, q, r) ==
    IF spd = 1 \/ spn = spd \/ len = 1 THEN [index |-> len - 1, fn |-> 0, fd |-> 1]
    ELSE IF r * len - spn >= 0
    THEN [index |-> Max2(0, q), fn |-> r * len - spn, fd |-> spd]
    ELSE [index |-> Max2(0, q - 1), fn |-> r * len - spn + spd, fd |-> spd]

\* currentFloat = segmentProgress * (len - 1), by whole and remaining route steps
TravelerPosition(len, seg) ==
    TravelerAt(len, seg.spn, seg.spd,
               IF seg.spd = 1 THEN 0 ELSE seg.spn \div (seg.spd \div len),
               IF seg.spd = 1 THEN 0 ELSE seg.spn % (seg.spd \div len))

\* lines 701-716: the legs before the current one and the current leg's coordinates up
\* to the traveler, who is at coordinate index and fn/fd of the way to the next.  With
\* `short` the doubles of lines 651-653 leave currentFloat a rounding error below
\* len - 1: the line then has the coordinates before `index` and a last point
\* interpolated just before coordinate `index`, which it does not have.
VisibleLine(segs, seg, at, short) ==
    [legs |-> seg.currentSegment, index |-> at.index, fn |-> at.fn, fd |-> at.fd,
     short |-> short]

\* the call at progress 1 on a leg of more than one coordinate, whose segmentProgress
\* the doubles leave below 1 (thresholds and the double 1 held times 16)
ShortOfLastCoordinate(pn, pd, segs, seg) ==
    /\ pn = pd
    /\ segs[seg.currentSegment + 1].len > 1
    /\ SegmentProgressBelowOneAtOne(
           [i \in 1..Len(segs) |-> ScaledCumulativeDouble(segs, i, TotalLength(segs), 16)],
           <<16 * Limb, 0, 0>>)

\* lines 707-732: the old polyline is taken off the map and, when it has more than one
\* point, the new one is put on it
LinePoints(segs, line) ==
    SumSeq([i \in 1..line.legs |-> segs[i].len]) + line.index + 1
        + (IF line.fn > 0 THEN 1 ELSE 0)

DrawLine(st, segs, line) ==
    IF LinePoints(segs, line) > 1
    THEN [st EXCEPT !.animatedLine = line, !.layers.line = TRUE]
    ELSE [st EXCEPT !.layers.line = FALSE]

\* lines 670-699 (and 481-499 in the pan phase): the camera is steered toward target
MoveCamera(st, on, target) == [st EXCEPT !.camera = [on |-> on, at |-> target]]

\* lines 645-732: camera and path overlay of a drawing route-phase call whose traveler
\* is at `line`
DrawCameraAndLineAt(st, segs, line) == DrawLine(MoveCamera(st, "route", line), segs, line)

DrawCameraAndLine(st, pn, pd, segs, seg) ==
    DrawCameraAndLineAt(st, segs,
        VisibleLine(segs, seg, TravelerPosition(segs[seg.currentSegment + 1].len, seg),
                    ShortOfLastCoordinate(pn, pd, segs, seg)))

\* lines 759-764 and 777-782: the tilt of the car and of the bike for a direction
CarTilt(direction) ==
    IF AngleLess(Degrees(90), AngleAbs(direction))
    THEN (IF AngleLess(Degrees(0), direction)
          THEN AngleNeg(AngleSub(direction, Degrees(180)))
          ELSE AngleNeg(AngleAdd(direction, Degrees(180))))
    ELSE direction

BikeTilt(direction) ==
    IF ~AngleLess(Degrees(90), AngleAbs(direction))
    THEN AngleNeg(direction)
    ELSE (IF AngleLess(Degrees(0), direction)
          THEN AngleSub(direction, Degrees(180))
          ELSE AngleAdd(direction, Degrees(180)))

\* scaleX of the car (goingLeft ? -1 : 1) and of the bike (goingRight ? -1 : 1)
CarScaleX(direction) == IF AngleLess(Degrees(90), AngleAbs(direction)) THEN -1 ELSE 1
BikeScaleX(direction) == IF ~AngleLess(Degrees(90), AngleAbs(direction)) THEN -1 ELSE 1

\* lines 766-772 (784-790): lastAngles[kind] after the smoothing toward tilt
TiltedToward(tilt, lastAngle) ==
    SmoothedAngle(lastAngle, NormalizeAngle(AngleSub(tilt, lastAngle)), Double003,
                  <<5 * Limb, 0, 0>>)

\* lines 759-775 had the car's angle been kept where the bike's is
TurnVehicleSharedAngle(st, kind, icon, scaleX, angle) ==
    [st EXCEPT !.lastAngles.bike = angle,
               !.transforms[icon] = [scaleX |-> scaleX, rotate |-> angle]]

\* lines 766-774 (784-792): the new angle is stored for the kind and put on its element
TurnVehicle(st, kind, icon, scaleX, angle) ==
    [st EXCEPT !.lastAngles[kind] = angle,
               !.transforms[icon] = [scaleX |-> scaleX, rotate |-> angle]]

\* lines 795-803: a pedestrian icon is only flipped
FlipPedestrian(st, icon, hd) ==
    [st EXCEPT !.transforms[icon] =
        [scaleX |-> IF icon = "backpacker" THEN (IF hd[1] < 0 THEN 1 ELSE -1)
                    ELSE (IF hd[1] < 0 THEN -1 ELSE 1),
         rotate |-> Degrees(0)]]

Abs(n) == IF n < 0 THEN 0 - n ELSE n

\* lines 748-805: the icon shown is oriented along the heading hd, the displacement on
\* screen from the traveler to the look-ahead point, when that is more than 5 pixels
OrientIcon(st, icon, hd) ==
    IF ~(Abs(hd[1]) > 5 \/ Abs(hd[2]) > 5) THEN st
    ELSE IF icon = "car"
    THEN TurnVehicle(st, "car", icon, CarScaleX(DirectionOf(hd)),
                     TiltedToward(CarTilt(DirectionOf(hd)), st.lastAngles.car))
    ELSE IF icon = "motorcycle"
    THEN TurnVehicle(st, "bike", icon, BikeScaleX(DirectionOf(hd)),
                     TiltedToward(BikeTilt(DirectionOf(hd)), st.lastAngles.bike))
    ELSE FlipPedestrian(st, icon, hd)

\* lines 610-813, given the state the waypoint loop left and the icon made opaque
DrawRoute(pn, pd, st3, icon, throws, hd) ==
    IF throws /\ icon # "none"
    THEN Returned(st3, IconOpacities(icon), NoPause, TRUE)
    ELSE Returned(RevealEndMarker(IF icon = "none" THEN st3 ELSE OrientIcon(st3, icon, hd),
                                  pn, pd),
                  IconOpacities(icon), NoPause, FALSE)

\* lines 578-586 had the Core started the pause clock itself
PauseRequestKeepingTime(st2, el, cfg, cur) ==
    Returned([st2 EXCEPT !.lastPausedAfterSegment = cur - 1,
                         !.isPaused = TRUE,
                         !.currentPauseDuration = PauseDurationOf(cfg, cur - 1)], el,
             [shouldPause |-> TRUE,
              pauseDuration |-> PauseDurationOf(cfg, cur - 1),
              pauseAtSegment |-> cur - 1],
             FALSE)

\* lines 578-586: the pause request, which returns before anything is drawn
PauseRequest(st2, el, cfg, cur) ==
    Returned([st2 EXCEPT !.lastPausedAfterSegment = cur - 1], el,
             [shouldPause |-> TRUE,
              pauseDuration |-> PauseDurationOf(cfg, cur - 1),
              pauseAtSegment |-> cur - 1],
             FALSE)

\* lines 570-814, given getSegmentInfo's answer
RoutePhase(pn, pd, st2, el, cfg, segs, throws, hd, seg) ==
    IF NeedsPause(st2, seg.currentSegment)
    THEN PauseRequest(st2, el, cfg, seg.currentSegment)
    ELSE CHOOSE r \in {DrawRoute(pn, pd, st3, CurrentIcon(segs, seg), throws, hd) :
                          st3 \in {DrawCameraAndLine(UpdateWaypoints(st2, pn, pd, cfg, seg),
                                                     pn, pd, segs, seg)}} : TRUE

\* lines 817-851
EndPhase(pn, pd, st2) ==
    Returned([st2 EXCEPT !.endMarker = IF st2.endMarker # Null THEN 90 ELSE st2.endMarker,
                         !.endLabel = IF st2.endLabel # Null /\ pn * 10 > 2 * pd
                                      THEN 1 ELSE st2.endLabel],
             IconOpacities("none"), NoPause, FALSE)

\* lines 569-853, after the one-time route setup
RouteOrEnd(phase, pn, pd, st2, el, cfg, segs, throws, hd) ==
    IF phase = "route"
    THEN CHOOSE r \in {RoutePhase(pn, pd, st2, el, cfg, segs, throws, hd, seg) :
                          seg \in {getSegmentInfo(pn, pd, cfg.segmentProgressThresholds,
                                                  cfg.totalLength)}} : TRUE
    ELSE EndPhase(pn, pd, st2)

\* lines 506-567: the route furniture and the icons, set up once
SetupOnce(st1, segs) == [SetupRoute(st1, segs) EXCEPT !.iconsSetup = TRUE]

\* lines 452-501: the start marker is placed once, the camera is steered on every call
PanPhase(st1, pn, pd) ==
    MoveCamera([st1 EXCEPT !.startMarkerPlaced = TRUE,
                           !.startMarker = 90,
                           !.layers.startMarkers = IF st1.startMarkerPlaced
                                                   THEN st1.layers.startMarkers
                                                   ELSE st1.layers.startMarkers + 1],
               "start", NoLine)

\* line 433: phaseProgress === 0 || !state.titleCardShown
FramesOverview(st, pn) == pn = 0 \/ ~st.titleCardShown

\* lines 420-439: the title card is styled on every call (not modelled), the camera is
\* framed to config.bounds when line 433 says so
TitlePhase(st, pn) ==
    IF FramesOverview(st, pn)
    THEN [st EXCEPT !.titleCardShown = TRUE, !.layers.fitBounds = @ + 1]
    ELSE st

renderFrame(phase, pn, pd, st, el, cfg, segs, throws, hd) ==
    IF phase = "title"
    THEN Returned(TitlePhase(st, pn), el, NoPause, FALSE)
    ELSE IF phase = "pan"
    THEN Returned(PanPhase([st EXCEPT !.dateStampShown = TRUE], pn, pd), el, NoPause, FALSE)
    ELSE CHOOSE r \in {RouteOrEnd(phase, pn, pd, st2, el, cfg, segs, throws, hd) :
                          st2 \in {SetupOnce([st EXCEPT !.dateStampShown = TRUE], segs)}} : TRUE

(***************************************************************************)
(* What the model records of the calls made to renderFrame: the arguments  *)
(* of the last call, when it was made (the frame number or the timestamp), *)
(* and what it returned.                                                   *)
(***************************************************************************)
Phases == <<"title", "pan", "route", "end">>

PhaseRank(phase) ==
    IF phase = "title" THEN 1
    ELSE IF phase = "pan" THEN 2
    ELSE IF phase = "route" THEN 3
    ELSE IF phase = "end" THEN 4
    ELSE 0

NoCall == [phase |-> "none", pn |-> 0, pd |-> 1, at |-> 0, result |-> NoPause, threw |-> FALSE]

CallOf(phase, pn, pd, at, r) ==
    [phase |-> phase, pn |-> pn, pd |-> pd, at |-> at, result |-> r.result, threw |-> r.threw]

LogOf(log, r) == IF r.result.shouldPause THEN Append(log, r.result.pauseAtSegment) ELSE log

\* the clamp without its Math.max(0, ...)
Clamp01NoLower(pn, pd) == Min2(pd, pn)

\* Math.min(1, Math.max(0, phaseProgress)) on the numerator of pn/pd, pd > 0
Clamp01(pn, pd) == Min2(pd, Max2(0, pn))

(***************************************************************************)
(* animate-frames.js: the frame plan (lines 1004-1022, 1101-1107)          *)
(***************************************************************************)
CeilDiv(a, b) == (a + b - 1) \div b

FramePlan(segs) ==
    LET n == Len(segs)
        \* seg.pause || 0.5
        pauseOf == [i \in 1..n |-> IF segs[i].pause = 0 \/ segs[i].pause = Undefined
                                   THEN DefaultPauseMs ELSE segs[i].pause]
        totalPauseTime == SumSeq(pauseOf)
        totalDuration == F_TITLE_DURATION + F_PAN_DURATION + F_ROUTE_DURATION
                         + totalPauseTime + F_END_DURATION
        segmentPauseFrames == [i \in 1..n |-> (pauseOf[i] * FPS) \div 1000]
        titleEnd == (F_TITLE_DURATION * FPS) \div 1000
        panEnd == ((F_TITLE_DURATION + F_PAN_DURATION) * FPS) \div 1000
        routeEnd == ((F_TITLE_DURATION + F_PAN_DURATION + F_ROUTE_DURATION + totalPauseTime) * FPS)
                    \div 1000
    IN  [ totalFrames |-> CeilDiv(totalDuration * FPS, 1000),
          titleEndFrame |-> titleEnd,
          panEndFrame |-> panEnd,
          routeEndFrame |-> routeEnd,
          segmentPauseFrames |-> segmentPauseFrames,
          routeOnlyFrames |-> routeEnd - panEnd - SumSeq(segmentPauseFrames),
          \* cumulativePauseFrames[i] = the pause frames of legs 0..i-1
          cumulativePauseFrames |-> [i \in 1..n |-> SumSeq(SubSeq(segmentPauseFrames, 1, i - 1))] ]

InitialPauseState == [isPaused |-> FALSE, pauseFramesRemaining |-> 0, lastPausedAfterSegment |-> -1]

\* lines 1119-1138: the phase and the progress fraction of a frame number
FramePhaseUnclamped(frameNumber, ps, plan) ==
    IF frameNumber < plan.titleEndFrame
    THEN [phase |-> "title", pn |-> frameNumber, pd |-> plan.titleEndFrame]
    ELSE IF frameNumber < plan.panEndFrame
    THEN [phase |-> "pan", pn |-> frameNumber - plan.titleEndFrame,
          pd |-> plan.panEndFrame - plan.titleEndFrame]
    ELSE IF frameNumber < plan.routeEndFrame
    THEN LET routeFrameNumber == frameNumber - plan.panEndFrame
             pauseFramesSoFar == plan.cumulativePauseFrames[ps.lastPausedAfterSegment + 2]
             effectiveFrame == routeFrameNumber - pauseFramesSoFar
         \* Math.min(effectiveFrame / routeOnlyFrames, 1)
         IN  [phase |-> "route", pn |-> Min2(effectiveFrame, plan.routeOnlyFrames),
              pd |-> plan.routeOnlyFrames]
    ELSE [phase |-> "end", pn |-> frameNumber - plan.routeEndFrame,
          pd |-> plan.totalFrames - plan.routeEndFrame]

\* line 1143: phaseProgress: Math.min(1, Math.max(0, phaseProgress))
ClampPhase(u) == [u EXCEPT !.pn = Clamp01(u.pn, u.pd)]

FramePhase(frameNumber, ps, plan) == ClampPhase(FramePhaseUnclamped(frameNumber, ps, plan))

\* line 1156: Math.floor(result.pauseDuration * 30)
PauseFramesFor(pauseDuration) == (pauseDuration * 30) \div 1000

(***************************************************************************)
(* window.renderCinematicFrame(frameNumber), lines 1109-1158.  The result  *)
(* gives the pause state, AnimationState and elements it leaves, whether   *)
(* it called renderFrame (and with what), and whether that call threw.     *)
(***************************************************************************)
\* lines 1113-1117: a frame of a pause does nothing but count down
PauseFrame(ps, st, el) ==
    [ps |-> [ps EXCEPT !.pauseFramesRemaining = ps.pauseFramesRemaining - 1,
                       !.isPaused = ~(ps.pauseFramesRemaining - 1 <= 0)],
     state |-> st, elements |-> el, rendered |-> FALSE, call |-> NoCall, threw |-> FALSE]

\* lines 1152-1157: the pause request of renderFrame's result r is taken up
AfterRender(frameNumber, ps, fp, r) ==
    [ps |-> IF ~r.threw /\ r.result.shouldPause /\ r.result.pauseDuration > 0
            THEN [lastPausedAfterSegment |-> r.result.pauseAtSegment,
                  isPaused |-> TRUE,
                  pauseFramesRemaining |-> PauseFramesFor(r.result.pauseDuration)]
            ELSE ps,
     state |-> r.state, elements |-> r.elements, rendered |-> TRUE,
     call |-> CallOf(fp.phase, fp.pn, fp.pd, frameNumber, r),
     threw |-> r.threw]

\* lines 1140-1150
RenderAt(frameNumber, ps, fp, st, el, cfg, segs, throws) ==
    AfterRender(frameNumber, ps, fp,
                renderFrame(fp.phase, fp.pn, fp.pd, st, el, cfg, segs, throws, NoHeading))

renderCinematicFrame(frameNumber, ps, st, el, cfg, segs, plan, throws) ==
    IF ps.isPaused
    THEN PauseFrame(ps, st, el)
    ELSE RenderAt(frameNumber, ps, FramePhase(frameNumber, ps, plan), st, el, cfg, segs, throws)

\* existsSync(framePath): the frame directory holds frames 0..upTo-1 but `missing`
FrameExists(dir, frame) == frame < dir.upTo /\ frame # dir.missing

NoRequest == [d |-> Null, leg |-> Null]
NoServed == [d |-> Null, leg |-> Null, idle |-> 0]

\* the frame-exact driver before its first frame
FxIdle ==
    [ resumeMode |-> FALSE, dir |-> [upTo |-> 0, missing |-> Null],
      plan |-> <<>>, frame |-> 0, pauseState |-> InitialPauseState,
      capturedFrames |-> 0, skippedFrames |-> 0, lastCaptured |-> Null,
      request |-> NoRequest,      \* the pause request being served: duration and leg
      idle |-> 0,                 \* the calls that did nothing since that request
      served |-> NoServed,        \* the last pause served in full, with its idle calls
      uninterrupted |-> <<>> ]   \* the same export had it never been interrupted

FxInit(segs, resume, dir) ==
    [ FxIdle EXCEPT
        !.resumeMode = resume,
        \* without --resume the frame directory is removed first (line 1040)
        !.dir = IF resume THEN dir ELSE [upTo |-> 0, missing |-> Null],
        !.plan = FramePlan(segs),
        !.uninterrupted = [ps |-> InitialPauseState, state |-> createAnimationState,
                           elements |-> InitialElements] ]

(***************************************************************************)
(* js/recorder.js runPreview: the phase table and the locals of animate    *)
(***************************************************************************)
PreviewPhases(cfg) ==
    LET totalPauseTime == SumSeq(cfg.segmentPauses)
    IN  << [name |-> "title", duration |-> P_TITLE_DURATION],
           [name |-> "pan", duration |-> P_PAN_DURATION],
           [name |-> "route", duration |-> DefaultAnimationDuration + totalPauseTime],
           [name |-> "end", duration |-> P_END_DURATION] >>

\* the phase loop without line 643 (phaseStart += phase.duration)
RECURSIVE PhaseAtForgettingStart(_, _, _, _)
PhaseAtForgettingStart(phases, k, phaseStart, elapsed) ==
    IF k > Len(phases) THEN [k |-> 0, phaseStart |-> phaseStart]
    ELSE IF elapsed < phaseStart + phases[k].duration THEN [k |-> k, phaseStart |-> phaseStart]
    ELSE PhaseAtForgettingStart(phases, k + 1, phaseStart, elapsed)

\* lines 635-644: the first phase whose end lies after `elapsed` (k = 0: none)
RECURSIVE PhaseAtFrom(_, _, _, _)
PhaseAtFrom(phases, k, phaseStart, elapsed) ==
    IF k > Len(phases) THEN [k |-> 0, phaseStart |-> phaseStart]
    ELSE IF elapsed < phaseStart + phases[k].duration THEN [k |-> k, phaseStart |-> phaseStart]
    ELSE PhaseAtFrom(phases, k + 1, phaseStart + phases[k].duration, elapsed)

PhaseAt(phases, elapsed) == PhaseAtFrom(phases, 1, 0, elapsed)

PvInit ==
    [ clock |-> 0,               \* the timestamp of the last display refresh
      startTime |-> Null, pausedTime |-> 0, isPaused |-> FALSE,
      pauseStartTime |-> 0, currentPauseDuration |-> 0,
      elapsed |-> 0,             \* the elapsed time the last call of animate computed
      rafPending |-> TRUE,       \* requestAnimationFrame(animate) is outstanding
      resolved |-> FALSE ]       \* the completion promise is resolved

(***************************************************************************)
(* Initial states                                                          *)
(***************************************************************************)
BuildSegments(d, ss) ==
    [i \in 1..Len(ss) |->
        IF d = "frames" THEN BuildSegmentFrames(ss[i])
        ELSE IF d = "preview" THEN BuildSegmentPreview(ss[i])
        ELSE BuildSegmentRaw(ss[i])]

FrameDirs ==
    {[upTo |-> k * ResumeStride, missing |-> m] :
        k \in 0..MaxResumeAt, m \in {Null, ResumeStride \div 2}}

(***************************************************************************)
(* The recording server (src/unnamed/part_004).  Request handlers and the  *)
(* settling of an awaited operation are tasks of the event loop; promise   *)
(* reactions run between two tasks, before the next handler is called.     *)
(***************************************************************************)
\* the concurrent recordAnimation calls the model follows
MaxRecordings == 2

Progress(phase, percent, status, videoPath, error) ==
    [phase |-> phase, percent |-> percent, status |-> status, videoPath |-> videoPath,
     error |-> error]

\* let recordingProgress = { phase: '', percent: 0, status: 'idle' }
IdleProgress == Progress("", 0, "idle", FALSE, FALSE)

NoResponse == [to |-> "none", code |-> 0, isRecording |-> FALSE, progress |-> IdleProgress]

\* the await expressions of recordAnimation, by source line
Awaits == <<163, 169, 174, 175, 176, 179, 188, 191, 192, 195, 276, 285, 293, 346, 349>>

\* the chain recordAnimation(...).then(...).catch(...).finally(...)
Reactions == <<"then", "catch", "finally">>

ServerIdle ==
    [isRecording |-> FALSE,
     recordingProgress |-> IdleProgress,
     recordings |-> <<>>,     \* the recordAnimation calls in flight: the await each is at
     reactions |-> <<>>,      \* the promise reactions still to run before the next task
     settled |-> "none",      \* how the promise the next reaction hangs on was settled
     response |-> NoResponse] \* the last response sent

\* recordAnimation's assignments to recordingProgress between the lines from and to
ProgressBetween(from, to, progress) ==
    IF from < 354 /\ 354 < to THEN Progress("complete", 100, "complete", FALSE, FALSE)
    ELSE IF from < 283 /\ 283 < to THEN Progress("recording", 20, "recording", FALSE, FALSE)
    ELSE IF from < 187 /\ 187 < to THEN Progress("tiles", 15, "recording", FALSE, FALSE)
    ELSE IF from < 172 /\ 172 < to THEN Progress("loading", 10, "recording", FALSE, FALSE)
    ELSE IF from < 161 /\ 161 < to THEN Progress("launching", 5, "recording", FALSE, FALSE)
    ELSE progress

Without(seq, i) == [j \in 1..(Len(seq) - 1) |-> IF j < i THEN seq[j] ELSE seq[j + 1]]

\* the promise of a recordAnimation call settles: its reactions are queued
Settle(s, how) == [s EXCEPT !.reactions = Reactions, !.settled = how]

\* recordAnimation(routeSegments, options, tile) up to its first await; a body whose
\* routeSegments has a length but is no array throws at routeSegments.reduce
recordAnimation(s, body) ==
    IF body = "malformed" THEN Settle(s, "rejected")
    ELSE [s EXCEPT !.recordingProgress = ProgressBetween(128, Awaits[1], @),
                   !.recordings = Append(@, 1)]

\* the awaited operation of the i-th call settles and the call runs to its next await,
\* to its return or to the exception the await throws
ResumeRecording(s, i, ok) ==
    IF ~ok THEN Settle([s EXCEPT !.recordings = Without(@, i)], "rejected")
    ELSE IF s.recordings[i] = Len(Awaits)
    THEN Settle([s EXCEPT !.recordings = Without(@, i),
                          !.recordingProgress = ProgressBetween(Awaits[Len(Awaits)], 357, @)],
                "fulfilled")
    ELSE [s EXCEPT !.recordings[i] = @ + 1,
                   !.recordingProgress =
                       ProgressBetween(Awaits[s.recordings[i]], Awaits[s.recordings[i] + 1], @)]

\* .then(videoPath => { recordingProgress = {... status: 'complete', videoPath} })
ThenReaction(s) ==
    IF s.settled = "fulfilled"
    THEN [s EXCEPT !.recordingProgress = Progress("complete", 100, "complete", TRUE, FALSE)]
    ELSE s

\* .catch(err => { recordingProgress = {... status: 'error', error: err.message} })
CatchReaction(s) ==
    IF s.settled = "rejected"
    THEN [s EXCEPT !.recordingProgress = Progress("error", 0, "error", FALSE, TRUE),
                   !.settled = "fulfilled"]
    ELSE s

\* a chain without the .finally of lines 81-83: isRecording stays as it is
FinallyReactionLeft(s) == s

\* .finally(() => { isRecording = false })
FinallyReaction(s) == [s EXCEPT !.isRecording = FALSE]

RunReaction(s) ==
    [(IF Head(s.reactions) = "then" THEN ThenReaction(s)
      ELSE IF Head(s.reactions) = "catch" THEN CatchReaction(s)
      ELSE [FinallyReaction(s) EXCEPT !.settled = "none"])
     EXCEPT !.reactions = Tail(s.reactions)]

\* a handler without the test of line 59
AlreadyRecordingUntested(s) == FALSE

\* if (isRecording) return res.status(409)...
AlreadyRecording(s) == s.isRecording

\* if (!routeSegments || !routeSegments.length) return res.status(400)...
NoRouteSegments(body) == body = "none"

Answer(s, to, code) ==
    [s EXCEPT !.response = [to |-> to, code |-> code, isRecording |-> FALSE,
                            progress |-> IdleProgress]]

\* app.post('/api/record', ...)
PostRecordHandler(s, body) ==
    IF AlreadyRecording(s) THEN Answer(s, "record", 409)
    ELSE IF NoRouteSegments(body) THEN Answer(s, "record", 400)
    ELSE Answer(recordAnimation([s EXCEPT !.isRecording = TRUE,
                                          !.recordingProgress =
                                              Progress("starting", 0, "recording", FALSE, FALSE)],
                                body),
                "record", 200)

\* app.get('/api/status', ...): res.json({ isRecording, progress: recordingProgress })
GetStatusHandler(s) ==
    [s EXCEPT !.response = [to |-> "status", code |-> 200, isRecording |-> s.isRecording,
                            progress |-> s.recordingProgress]]

\* the event loop calls the next task only when no promise reaction is left to run
BetweenTasks(s) == s.reactions = <<>>

RecordBodies == {"none", "legs", "malformed"}

\* nothing of zoom-utils.js has been called on its own
ZuIdle == [called |-> FALSE]

InitWith(d, f) ==
    /\ driver = d
    /\ server = ServerIdle
    /\ zu = ZuIdle
    /\ faulty = f
    /\ stops \in RouteConfigsOf(d)
    /\ routeSegments = BuildSegments(d, stops)
    /\ config = createAnimationConfig(routeSegments)
    /\ state = createAnimationState
    /\ elements = InitialElements
    /\ call = NoCall
    /\ pauseLog = <<>>
    /\ pv = PvInit
    /\ IF d = "frames"
       THEN \E resume \in BOOLEAN, dir \in FrameDirs :
                /\ (~resume => dir = [upTo |-> 0, missing |-> Null])
                /\ fx = FxInit(routeSegments, resume, dir)
       ELSE fx = FxIdle

(***************************************************************************)
(* A caller of the Core that passes any phase and progress (driver "core") *)
(* and one that sweeps the route phase from 0 to 1 in steps of any size    *)
(* (driver "sweep").                                                       *)
(***************************************************************************)
Apply(phase, pn, pd, at, r) ==
    /\ state' = r.state
    /\ elements' = r.elements
    /\ call' = CallOf(phase, pn, pd, at, r)
    /\ pauseLog' = LogOf(pauseLog, r)

CoreRender ==
    /\ driver = "core"
    /\ \E k \in 1..4, pn \in 0..ProgressSteps :
          /\ (Phases[k] = "title" /\ FramesOverview(state, pn))
                => state.layers.fitBounds < MaxFitBounds
          /\ Apply(Phases[k], pn, ProgressSteps, 0,
                renderFrame(Phases[k], pn, ProgressSteps, state, elements, config, routeSegments, FALSE, NoHeading))
    /\ UNCHANGED <<server, driver, faulty, stops, routeSegments, config, fx, pv, zu>>

SweepRender ==
    /\ driver = "sweep"
    /\ \E pn \in 0..ProgressSteps :
          /\ IF call.phase = "none" THEN pn = 0 ELSE pn >= call.pn
          /\ Apply("route", pn, ProgressSteps, 0,
                   renderFrame("route", pn, ProgressSteps, state, elements, config, routeSegments, FALSE, NoHeading))
    /\ UNCHANGED <<server, driver, faulty, stops, routeSegments, config, fx, pv, zu>>

\* the sweep has drawn the frame at progress 1
SweepDone ==
    driver = "sweep" /\ call.phase = "route" /\ call.pn = call.pd /\ ~call.result.shouldPause

(***************************************************************************)
(* The capture loop of createFrameByFrameAnimation, lines 1169-1195: one   *)
(* action per iteration.                                                   *)
(***************************************************************************)
\* whether the projection call of this iteration may throw: on a faulty surface, at
\* every FaultStride-th frame of an export and at any refresh of a preview
Throws ==
    IF faulty /\ (driver = "frames" => fx.frame % FaultStride = 0) THEN BOOLEAN ELSE {FALSE}

\* the same frame in an export that was never interrupted
UninterruptedFrame(throws) ==
    renderCinematicFrame(fx.frame, fx.uninterrupted.ps, fx.uninterrupted.state,
                         fx.uninterrupted.elements, config, routeSegments, fx.plan, throws)

\* what an iteration leaves behind: r is what renderCinematicFrame(frame) did, ur what
\* it did in the uninterrupted export, capturing whether the iteration takes a screenshot
FrameStep(r, ur, capturing) ==
    /\ state' = r.state
    /\ elements' = r.elements
    /\ call' = IF r.rendered THEN r.call ELSE call
    /\ pauseLog' = IF r.rendered THEN LogOf(pauseLog, r.call) ELSE pauseLog
    /\ fx' = [fx EXCEPT
                !.frame = fx.frame + 1,
                !.pauseState = r.ps,
                !.capturedFrames = IF capturing /\ ~r.threw THEN fx.capturedFrames + 1
                                   ELSE fx.capturedFrames,
                !.skippedFrames = IF capturing THEN fx.skippedFrames ELSE fx.skippedFrames + 1,
                !.lastCaptured = IF capturing /\ ~r.threw THEN fx.frame ELSE fx.lastCaptured,
                !.request = IF r.rendered /\ r.ps.isPaused
                            THEN [d |-> r.call.result.pauseDuration,
                                  leg |-> r.call.result.pauseAtSegment]
                            ELSE IF r.rendered THEN NoRequest ELSE fx.request,
                !.idle = IF r.rendered THEN 0 ELSE fx.idle + 1,
                !.served = IF r.rendered /\ fx.request # NoRequest
                           THEN [d |-> fx.request.d, leg |-> fx.request.leg, idle |-> fx.idle]
                           ELSE fx.served,
                !.uninterrupted = [ps |-> ur.ps, state |-> ur.state, elements |-> ur.elements]]
    /\ UNCHANGED <<server, driver, faulty, stops, routeSegments, config, pv, zu>>

\* a resume that skipped the frames on disk without replaying them
ReplayFrameSkipping(throws) ==
    [ps |-> fx.pauseState, state |-> state, elements |-> elements, rendered |-> FALSE,
     call |-> NoCall, threw |-> FALSE]

\* lines 1172-1176: a frame already on disk is replayed, not captured
ReplayFrame(throws) ==
    renderCinematicFrame(fx.frame, fx.pauseState, state, elements, config,
                         routeSegments, fx.plan, throws)

Replay ==
    /\ driver = "frames"
    /\ fx.frame < fx.plan.totalFrames
    /\ fx.resumeMode /\ FrameExists(fx.dir, fx.frame)
    /\ \E throws \in Throws : FrameStep(ReplayFrame(throws), UninterruptedFrame(throws), FALSE)

\* lines 1178-1187: render, and take the screenshot unless the render threw
CaptureFrame(throws) ==
    renderCinematicFrame(fx.frame, fx.pauseState, state, elements, config,
                         routeSegments, fx.plan, throws)

Capture ==
    /\ driver = "frames"
    /\ fx.frame < fx.plan.totalFrames
    /\ ~(fx.resumeMode /\ FrameExists(fx.dir, fx.frame))
    /\ \E throws \in Throws : FrameStep(CaptureFrame(throws), UninterruptedFrame(throws), TRUE)

ExportDone == driver = "frames" /\ fx.frame = fx.plan.totalFrames

(***************************************************************************)
(* animate(currentTime), lines 620-661: one action per display refresh.    *)
(***************************************************************************)
\* line 627 had it added pauseElapsed where the code adds currentPauseDuration
PausedTimeAddedElapsed(p, currentTime) == currentTime - p.pauseStartTime

\* line 627: the time a finished pause adds to pausedTime
PausedTimeAdded(p, currentTime) == p.currentPauseDuration

\* lines 648-660: renderFrame is called and its pause request taken up
AnimateRendered(currentTime, p1, elapsed, phase, pn, r) ==
    /\ Apply(phase.name, pn, phase.duration, currentTime, r)
    /\ pv' = IF r.threw
             \* the exception leaves animate before it asks for the next frame
             THEN [p1 EXCEPT !.elapsed = elapsed, !.rafPending = FALSE]
             ELSE IF r.result.shouldPause /\ r.result.pauseDuration > 0
             THEN [p1 EXCEPT !.elapsed = elapsed,
                             !.isPaused = TRUE,
                             !.pauseStartTime = currentTime,
                             !.currentPauseDuration = r.result.pauseDuration]
             ELSE [p1 EXCEPT !.elapsed = elapsed]

AnimateRender(currentTime, p1, elapsed, phase, pn, throws) ==
    \E r \in {renderFrame(phase.name, pn, phase.duration, state, elements, config,
                          routeSegments, throws, NoHeading)} :
        AnimateRendered(currentTime, p1, elapsed, phase, pn, r)

\* lines 635-646, given the phase found for `elapsed`
AnimatePhase(currentTime, p1, elapsed, phases, at, throws) ==
    IF at.k = 0
    THEN /\ pv' = [p1 EXCEPT !.elapsed = elapsed, !.rafPending = FALSE, !.resolved = TRUE]
         /\ UNCHANGED <<state, elements, call, pauseLog>>
    ELSE \E pn \in {Clamp01(elapsed - at.phaseStart, phases[at.k].duration)} :
             AnimateRender(currentTime, p1, elapsed, phases[at.k], pn, throws)

\* line 634
AnimateElapsed(currentTime, p1, elapsed, phases, throws) ==
    \E at \in {PhaseAt(phases, elapsed)} :
        AnimatePhase(currentTime, p1, elapsed, phases, at, throws)

AnimateRunning(currentTime, p1, throws) ==
    \E elapsed \in {currentTime - p1.startTime - p1.pausedTime},
       phases \in {PreviewPhases(config)} :
        AnimateElapsed(currentTime, p1, elapsed, phases, throws)

\* lines 623-632, with startTime taken (line 621)
AnimateStarted(currentTime, p0, throws) ==
    IF p0.isPaused /\ currentTime - p0.pauseStartTime < p0.currentPauseDuration
    THEN /\ pv' = p0
         /\ UNCHANGED <<state, elements, call, pauseLog>>
    ELSE \E p1 \in {IF p0.isPaused
                     THEN [p0 EXCEPT !.isPaused = FALSE,
                                     !.pausedTime = p0.pausedTime + PausedTimeAdded(p0, currentTime)]
                     ELSE p0} :
             AnimateRunning(currentTime, p1, throws)

animate(currentTime, throws) ==
    \E p0 \in {[pv EXCEPT !.clock = currentTime,
                           !.startTime = IF pv.startTime = Null \/ pv.startTime = 0
                                         THEN currentTime ELSE pv.startTime]} :
        AnimateStarted(currentTime, p0, throws)

Animate ==
    /\ driver = "preview"
    /\ pv.rafPending
    /\ \E dt \in 1..MaxStep, throws \in Throws : animate(pv.clock + dt * TickMs, throws)
    /\ UNCHANGED <<server, driver, faulty, stops, routeSegments, config, fx, zu>>

\* selectRoute(index), lines 177-192, called by the route selector's change listener
\* (line 351) while a preview may be running: line 185 assigns the legs of the selected
\* route to the variable routeSegments that animate reads at every call.  The route
\* selected has as many legs as the one the preview began with, so that every leg
\* index the preview's Config gives exists in the new list.
SelectRoute ==
    /\ driver = "preview"
    /\ \E selected \in RouteConfigsOf("preview") :
          /\ Len(selected) = Len(stops)
          /\ stops' = selected
          /\ routeSegments' = BuildSegments("preview", selected)
    /\ UNCHANGED <<server, driver, faulty, config, state, elements, call, pauseLog, fx, pv, zu>>

(***************************************************************************)
(* Callers of zoom-utils.js alone.  Driver "segments" sweeps               *)
(* getSegmentInfo over the progress grid for the thresholds of a route;    *)
(* driver "zoom" computes a route's zoom levels and keyframes and sweeps   *)
(* getInterpolatedZoom over the grid.                                      *)
(***************************************************************************)
RECURSIVE LegLengths(_)
LegLengths(n) ==
    IF n = 0 THEN {<<>>}
    ELSE {Append(lens, l) : lens \in LegLengths(n - 1), l \in 1..MaxLegLen}

\* every route of up to MaxLegs non-empty legs (the route without legs included), and
\* the route of two 10-point legs
UtilRoutes == UNION {LegLengths(n) : n \in 0..MaxLegs} \cup {<<10, 10>>}

UtilStops(lens) == [i \in 1..Len(lens) |-> Stop(lens[i], "person", TRUE, Undefined)]

InitUtil(d, lens) ==
    /\ driver = d
    /\ server = ServerIdle
    /\ faulty = FALSE
    /\ stops = UtilStops(lens)
    /\ routeSegments = BuildSegments(d, stops)
    /\ config = createAnimationConfig(routeSegments)
    /\ state = createAnimationState
    /\ elements = InitialElements
    /\ call = NoCall
    /\ pauseLog = <<>>
    /\ pv = PvInit
    /\ fx = FxIdle

NoInfo == [currentSegment |-> -1, segmentStart |-> 0, spn |-> 0, spd |-> 1]

InitSegments ==
    /\ \E lens \in UtilRoutes : InitUtil("segments", lens)
    /\ zu = [called |-> FALSE, pn |-> 0, pd |-> config.totalLength * GridSub,
             thresholds |-> SegmentProgressThresholdDoubles(routeSegments),
             outcome |-> calculateSegmentProgressThresholdsOutcome(routeSegments),
             info |-> NoInfo,    \* what the last call returned
             prev |-> -1,        \* the currentSegment the call before it returned
             seen |-> {}]        \* the currentSegment values returned so far

\* the next call of the sweep: getSegmentInfo(pn / zu.pd, thresholds)
SegmentInfoSweep(pn) ==
    /\ pn <= zu.pd + Overshoot
    /\ \E info \in {getSegmentInfo(pn, zu.pd, config.segmentProgressThresholds,
                                    config.totalLength)} :
          zu' = [zu EXCEPT !.called = TRUE, !.pn = pn, !.info = info,
                           !.prev = zu.info.currentSegment,
                           !.seen = zu.seen \cup {info.currentSegment}]

SegmentInfoCall ==
    /\ driver = "segments"
    /\ routeSegments # <<>>
    /\ SegmentInfoSweep(IF zu.called THEN zu.pn + 1 ELSE 0)
    /\ UNCHANGED <<server, driver, faulty, stops, routeSegments, config, state, elements, call,
                   pauseLog, fx, pv>>

ZoomLeg(len, zoomLevel, autoZoom) == [len |-> len, zoomLevel |-> zoomLevel, autoZoom |-> autoZoom]

ZoomRoutes ==
    { <<ZoomLeg(3, Null, 17)>>,
      <<ZoomLeg(2, 10, 12), ZoomLeg(3, Null, 17)>>,
      <<ZoomLeg(1, Null, 11), ZoomLeg(2, 16, 12), ZoomLeg(2, Null, 14)>>,
      <<ZoomLeg(2, 12, 12), ZoomLeg(1, 14, 12), ZoomLeg(2, 10, 12)>> }

ZoomOptions == [maxZoom : {Undefined, 12, 15}, defaultCloseZoom : {Undefined, 13, 16}]

OverviewZooms == {9, 14}

\* start.zoomLevel of the destinations file (animate-frames.js line 1034: || null)
StartZoomLevels == {Null, 11, 18}

NoZoom == [num |-> 0, den |-> 1, lo |-> -1]

\* no pan-phase call yet
NoPan == [pn |-> -1, num |-> 0, den |-> 1]

ZuZoom(legs, options, overviewZoom, levels, startZoomLevel) ==
    [called |-> FALSE, legs |-> legs, options |-> options, overviewZoom |-> overviewZoom,
     segmentZoomLevels |-> levels,
     startZoomLevel |-> startZoomLevel,
     closeZoom |-> CloseZoomOf(startZoomLevel, levels),
     pan |-> NoPan,          \* the last pan-phase call's progress and targetZoom
     zoomKeyframes |-> createZoomKeyframes(levels, config.segmentProgressThresholds),
     pn |-> 0, pd |-> config.totalLength * GridSub,
     zoom |-> NoZoom,        \* what the last call returned
     prevZoom |-> NoZoom]    \* what the call before it returned

InitZoom ==
    \E legs \in ZoomRoutes, options \in ZoomOptions, overviewZoom \in OverviewZooms,
       startZoomLevel \in StartZoomLevels :
        /\ InitUtil("zoom", [i \in 1..Len(legs) |-> legs[i].len])
        /\ zu = ZuZoom(legs, options, overviewZoom,
                       calculateSegmentZoomLevels(legs, options, overviewZoom), startZoomLevel)

\* the next call of the sweep: getInterpolatedZoom(pn / zu.pd, zoomKeyframes)
ZoomAt(pn) ==
    /\ pn <= zu.pd + Overshoot
    /\ \E z \in {getInterpolatedZoom(pn, zu.pd, zu.zoomKeyframes, config.totalLength)} :
          zu' = [zu EXCEPT !.called = TRUE, !.pn = pn, !.zoom = z, !.prevZoom = zu.zoom]

ZoomCall ==
    /\ driver = "zoom"
    /\ ZoomAt(IF zu.called THEN zu.pn + 1 ELSE 0 - Overshoot)
    /\ UNCHANGED <<server, driver, faulty, stops, routeSegments, config, state, elements, call,
                   pauseLog, fx, pv>>

\* the next pan-phase frame, before the route phase begins: the targetZoom renderFrame
\* steers the camera toward at phaseProgress (zu.pan.pn + 1) / ProgressSteps
PanZoomCall ==
    /\ driver = "zoom"
    /\ ~zu.called
    /\ zu.pan.pn < ProgressSteps
    /\ \E z \in {PanTargetZoom(zu.pan.pn + 1, ProgressSteps, zu.overviewZoom, zu.closeZoom)} :
          zu' = [zu EXCEPT !.pan = [pn |-> zu.pan.pn + 1, num |-> z.num, den |-> z.den]]
    /\ UNCHANGED <<server, driver, faulty, stops, routeSegments, config, state, elements, call,
                   pauseLog, fx, pv>>

(***************************************************************************)
(* Callers of the icon orientation.  Driver "icons" holds one heading and  *)
(* calls the orientation again and again with the angle the call before    *)
(* returned, as a renderer does from frame to frame: calculateIconTransform*)
(* of icon-renderer.js or of its copy in unnamed/part_007 (animate-frames  *)
(* line 703 stores newLastAngle), or the orientation renderFrame has in    *)
(* line (map-init.js lines 748-805).  Driver "headings" sweeps the route   *)
(* phase of renderFrame over a route that changes the icon at every stop,  *)
(* on a map whose projection gives a heading to each call.                 *)
(***************************************************************************)
Headings ==
    {<<10, 0>>, <<10, 10>>, <<0, 10>>, <<-10, 10>>, <<-10, 0>>, <<-10, -10>>, <<0, -10>>,
     <<10, -10>>}

StartAngles == {Degrees(0), Degrees(180), Degrees(-180), Degrees(170), Degrees(-91)}

OrientedKinds == {"bike", "car", "person", "backpacker"}

IconCallers == {"icon-renderer", "part_007", "map-init"}

\* what the orientation of renderFrame leaves of a state whose icon of kind iconType
\* was last drawn at lastAngle
OrientedFrom(iconType, hd, lastAngle) ==
    OrientIcon([createAnimationState EXCEPT !.lastAngles[iconType] = lastAngle],
               IconElementOf(iconType), hd)

\* the orientation of renderFrame as a transform: angle, mirror, new last angle
InlineTransform(iconType, st) ==
    [angle |-> st.transforms[IconElementOf(iconType)].rotate,
     scaleX |-> st.transforms[IconElementOf(iconType)].scaleX,
     newLastAngle |-> st.lastAngles[iconType]]

OrientationOf(caller, iconType, hd, lastAngle) ==
    IF caller = "icon-renderer"
    THEN calculateIconTransform("left", iconType, hd, lastAngle, Double015)
    ELSE IF caller = "part_007"
    THEN calculateIconTransform("right", iconType, hd, lastAngle, Double015)
    ELSE InlineTransform(iconType, OrientedFrom(iconType, hd, lastAngle))

InitIcons ==
    /\ InitUtil("icons", <<3>>)
    /\ \E caller \in IconCallers, iconType \in OrientedKinds, hd \in Headings,
          lastAngle \in StartAngles :
          zu = [called |-> FALSE, caller |-> caller, iconType |-> iconType, hd |-> hd,
                start |-> lastAngle,       \* the angle the first call is given
                lastAngle |-> lastAngle,   \* the angle the next call is given
                given |-> lastAngle,       \* the angle the last call was given
                transform |-> TransformOf(lastAngle, 1),  \* what the last call returned
                calls |-> 0,               \* the calls made
                idle |-> 0]                \* the last calls that returned the angle given

IconTurned(t) ==
    zu' = [zu EXCEPT !.called = TRUE, !.given = zu.lastAngle, !.transform = t,
                     !.lastAngle = t.newLastAngle, !.calls = zu.calls + 1,
                     !.idle = IF t.newLastAngle = zu.lastAngle THEN zu.idle + 1 ELSE 0]

IconTransformCall ==
    /\ driver = "icons"
    /\ zu.calls < MaxTurns /\ zu.idle < MaxIdleTurns
    /\ \E t \in {OrientationOf(zu.caller, zu.iconType, zu.hd, zu.lastAngle)} : IconTurned(t)
    /\ UNCHANGED <<server, driver, faulty, stops, routeSegments, config, state, elements, call,
                   pauseLog, fx, pv>>

\* the heading the projection gives on each leg of the route of driver "headings"
LegHeadings == <<<<10, 10>>, <<-10, -10>>, <<10, -10>>, <<-10, 10>>>>

HeadingCalls == IF zu.called THEN zu.turns ELSE 0

HeadingRender ==
    /\ driver = "headings"
    /\ \E pn \in 0..ProgressSteps, far \in BOOLEAN :
          /\ IF call.phase = "none" THEN pn = 0 ELSE pn \in {call.pn, call.pn + 1}
          /\ far => HeadingCalls < MaxHeadingCalls
          /\ \E hd \in {IF far
                        THEN LegHeadings[getSegmentInfo(pn, ProgressSteps,
                                             config.segmentProgressThresholds,
                                             config.totalLength).currentSegment + 1]
                        ELSE NoHeading} :
                /\ Apply("route", pn, ProgressSteps, 0,
                         renderFrame("route", pn, ProgressSteps, state, elements, config,
                                     routeSegments, FALSE, hd))
                /\ zu' = [called |-> TRUE, hd |-> hd,
                          turns |-> HeadingCalls + (IF far THEN 1 ELSE 0)]
    /\ UNCHANGED <<server, driver, faulty, stops, routeSegments, config, fx, pv>>

\* the tasks of the recording server
ServerUnchanged ==
    UNCHANGED <<driver, faulty, stops, routeSegments, config, state, elements, call, pauseLog,
                fx, pv, zu>>

PostRecord ==
    /\ driver = "server"
    /\ BetweenTasks(server)
    /\ \E body \in RecordBodies :
          /\ (~AlreadyRecording(server) /\ body = "legs")
                => Len(server.recordings) < MaxRecordings
          /\ server' = PostRecordHandler(server, body)
    /\ ServerUnchanged

GetStatus ==
    /\ driver = "server"
    /\ BetweenTasks(server)
    /\ server' = GetStatusHandler(server)
    /\ ServerUnchanged

AwaitSettles ==
    /\ driver = "server"
    /\ BetweenTasks(server)
    /\ \E i \in 1..Len(server.recordings), ok \in BOOLEAN :
          server' = ResumeRecording(server, i, ok)
    /\ ServerUnchanged

Reaction ==
    /\ driver = "server"
    /\ ~BetweenTasks(server)
    /\ server' = RunReaction(server)
    /\ ServerUnchanged

InitServer ==
    /\ InitUtil("server", <<2>>)
    /\ zu = ZuIdle

(***************************************************************************)
(* Specifications                                                          *)
(***************************************************************************)
InitCore == \E d \in {"core", "sweep"} : InitWith(d, FALSE)
NextCore == CoreRender \/ SweepRender
SpecCore == InitCore /\ [][NextCore]_vars

InitFrames == InitWith("frames", FALSE)
NextFrames == Replay \/ Capture
SpecFrames == InitFrames /\ [][NextFrames]_vars

InitPreview == InitWith("preview", FALSE)
NextPreview == Animate
SpecPreview == InitPreview /\ [][NextPreview]_vars
\* the browser calls every requested animation frame callback
FairPreview == SpecPreview /\ WF_vars(Animate)

\* both drivers, on a rendering surface that does not fail
InitDrivers == \E d \in {"frames", "preview"} : InitWith(d, FALSE)
NextDrivers == Replay \/ Capture \/ Animate
SpecDrivers == InitDrivers /\ [][NextDrivers]_vars

\* both drivers, on a rendering surface whose projection call may throw
InitFaulty == \E d \in {"frames", "preview"} : InitWith(d, TRUE)
SpecFaulty == InitFaulty /\ [][NextDrivers]_vars

\* the callers of zoom-utils.js
NextSegments == SegmentInfoCall
SpecSegments == InitSegments /\ [][NextSegments]_vars

NextZoom == PanZoomCall \/ ZoomCall
SpecZoom == InitZoom /\ [][NextZoom]_vars

\* a preview during which the user selects routes
NextReselect == Animate \/ SelectRoute
SpecReselect == InitPreview /\ [][NextReselect]_vars

\* the callers of the icon orientation
InitOrientation == InitIcons \/ InitWith("headings", FALSE)
NextOrientation == IconTransformCall \/ HeadingRender
SpecOrientation == InitOrientation /\ [][NextOrientation]_vars

\* the recording server under requests in any order
NextServer == PostRecord \/ GetStatus \/ AwaitSettles \/ Reaction
SpecServer == InitServer /\ [][NextServer]_vars
\* every awaited operation of recordAnimation resolves or rejects (timers fire and the
\* browser calls time out), and the event loop runs every queued promise reaction
FairServer == SpecServer /\ WF_vars(AwaitSettles) /\ WF_vars(Reaction)

Init ==
    \/ \E d \in {"core", "sweep", "frames", "preview"} : InitWith(d, FALSE)
    \/ InitSegments
    \/ InitZoom
    \/ InitOrientation
    \/ InitServer
Next ==
    \/ CoreRender \/ SweepRender \/ Replay \/ Capture \/ Animate \/ SegmentInfoCall \/ ZoomCall
    \/ IconTransformCall \/ HeadingRender \/ PanZoomCall \/ SelectRoute
    \/ PostRecord \/ GetStatus \/ AwaitSettles \/ Reaction
Spec == Init /\ [][Next]_vars

(***************************************************************************)
(* Properties                                                              *)
(***************************************************************************)
NonFinalLegs == [i \in 1..(Len(routeSegments) - 1) |-> i - 1]

\* C1: over any sequence of renderFrame calls on one AnimationState no leg index is
\* reported twice as pauseAtSegment, and lastPausedAfterSegment never decreases.
C1_PauseAtMostOncePerLeg ==
    /\ [](\A i, j \in 1..Len(pauseLog) : i # j => pauseLog[i] # pauseLog[j])
    /\ [][state'.lastPausedAfterSegment >= state.lastPausedAfterSegment]_vars

\* C1 witness: both pauses of a three-leg route were reported and a later call went
\* back to progress 0 and drew without pausing.
C1_Witness ==
    /\ driver = "core" /\ pauseLog = <<0, 1>>
    /\ call.phase = "route" /\ call.pn = 0 /\ ~call.result.shouldPause

\* C2: when the route phase has been swept from 0 to 1, whatever the step between the
\* calls, a pause was signalled exactly once after every non-final leg, in leg order.
C2_EveryLegPausesOnce == SweepDone => pauseLog = NonFinalLegs

\* C3: a pause request of d seconds is followed by exactly floor(d x 30) calls of
\* renderCinematicFrame that do not call renderFrame, and then by one that does.
C3_PauseTakesFloorFrames ==
    fx.served.d # Null => fx.served.idle = (fx.served.d * 30) \div 1000

\* C4: at the boundary of a leg whose pause is configured as 0 seconds renderFrame
\* returns shouldPause=true with pauseDuration 0, and the frame-exact driver spends no
\* do-nothing frame on it.
C4_ZeroPauseFreezesNothing ==
    /\ (call.result.shouldPause /\ stops[call.result.pauseAtSegment + 1].pause = 0)
          => call.result.pauseDuration = 0
    /\ (fx.served.d # Null /\ stops[fx.served.leg + 1].pause = 0) => fx.served.idle = 0
    /\ (driver = "frames" /\ call.result.shouldPause
            /\ stops[call.result.pauseAtSegment + 1].pause = 0) => ~fx.pauseState.isPaused

\* C5: in both drivers the phases passed to renderFrame never go back in the order
\* title, pan, route, end, and every phaseProgress passed lies in [0,1].
C5_PhasesInOrder ==
    /\ [](call.phase # "none" => call.pd > 0 /\ 0 <= call.pn /\ call.pn <= call.pd)
    /\ [][PhaseRank(call'.phase) >= PhaseRank(call.phase)]_vars

\* C5 witness: an export has reached the end phase after at least one pause.
C5_Witness == driver = "frames" /\ call.phase = "end" /\ Len(pauseLog) >= 1

\* C6: after every frame of a resumed export, which replays the frames already on
\* disk, the AnimationState, the elements and the pause state are those of an export
\* that was never interrupted.
C6_ResumeMatchesUninterrupted ==
    driver = "frames" =>
        fx.uninterrupted = [ps |-> fx.pauseState, state |-> state, elements |-> elements]

\* C6 witness: a resumed export has replayed frames, found one missing in the middle,
\* and is capturing again past the last frame it found, having paused on the way.
C6_Witness ==
    /\ driver = "frames" /\ fx.resumeMode
    /\ fx.skippedFrames > 0 /\ fx.capturedFrames > 1
    /\ fx.frame > fx.dir.upTo /\ fx.dir.missing # Null
    /\ Len(pauseLog) >= 1

\* C7: in the real-time driver renderFrame is not called between a pause request at
\* timestamp t and t + d*1000, and the elapsed time of the first call after the pause
\* is that of the requesting call plus the time gone by less the pause d.
C7_PauseFreezesPreview ==
    /\ [](call.phase # "none" =>
            \/ call.at = pv.pauseStartTime
            \/ call.at >= pv.pauseStartTime + pv.currentPauseDuration)
    /\ [][(pv.isPaused /\ call'.at # call.at) =>
            pv'.elapsed = pv.elapsed + (call'.at - call.at) - pv.currentPauseDuration]_vars

\* C7 witness: a pause has ended on a refresh later than its end, and the route goes on.
C7_Witness ==
    /\ driver = "preview" /\ pv.pausedTime > 0 /\ ~pv.isPaused
    /\ call.phase = "route" /\ call.at > pv.pauseStartTime + pv.currentPauseDuration
    /\ call.at = pv.clock

PreviewTotal ==
    P_TITLE_DURATION + P_PAN_DURATION + DefaultAnimationDuration
    + SumSeq(config.segmentPauses) + P_END_DURATION

\* C8: with strictly increasing timestamps the preview's completion promise is
\* eventually resolved, and only once the non-paused elapsed time has reached the sum
\* of the four phase durations.
C8_PreviewCompletes ==
    /\ <>pv.resolved
    /\ [](pv.resolved => pv.elapsed >= PreviewTotal)

\* C8 witness: a preview that paused has resolved its promise.
C8_Witness == pv.resolved /\ Len(pauseLog) >= 1 /\ ~pv.rafPending

\* C9: a failure while rendering one frame does not abort the run in either driver:
\* after it the driver is still going to render the following frames.
C9_FailureDoesNotAbort ==
    call.threw =>
        /\ driver = "preview" => pv.rafPending \/ pv.resolved
        /\ driver = "frames" => fx.frame <= fx.plan.totalFrames

WaypointCount == Len(state.waypointShown)

\* C10: waypointShown[i] and waypointFadedOut[i] only change from false to true,
\* waypointFadedOut[i] is never true while waypointShown[i] is false, and a label
\* that was faded out is never visible again.
C10_WaypointsMonotonic ==
    /\ [](\A i \in 1..WaypointCount : state.waypointFadedOut[i] => state.waypointShown[i])
    /\ [](\A i \in 1..WaypointCount : state.waypointFadedOut[i] => state.waypointLabels[i] = 0)
    /\ [][\A i \in 1..WaypointCount :
            /\ state.waypointShown[i] => state'.waypointShown[i]
            /\ state.waypointFadedOut[i] => state'.waypointFadedOut[i]]_vars

\* C10 witness: a label was faded out and a later call went back to a progress past
\* its show threshold and before its waypoint.
C10_Witness ==
    /\ driver = "core" /\ Len(routeSegments) = 2 /\ WaypointCount = 1
    /\ state.waypointFadedOut[1]
    /\ call.phase = "route" /\ ~call.result.shouldPause
    /\ call.pn * 4 = call.pd

(***************************************************************************)
(* Waypoints and icons                                                     *)
(***************************************************************************)
\* the leg (0-based) that ends at the waypoint whose marker is the w-th created
\* (lines 527-555: a pair is created for every non-final leg with a "to" label)
RECURSIVE WaypointLeg(_, _)
WaypointLeg(w, from) ==
    IF routeSegments[from + 1].toLabel
    THEN (IF w = 1 THEN from ELSE WaypointLeg(w - 1, from + 1))
    ELSE WaypointLeg(w, from + 1)

\* the leg and local progress of the last renderFrame call
CallSegment ==
    getSegmentInfo(call.pn, call.pd, config.segmentProgressThresholds, config.totalLength)

FadedBefore(w) == w <= Len(state.waypointFadedOut) /\ state.waypointFadedOut[w]

\* C11: a waypoint's marker and label are faded out only by a call whose progress lies
\* past the leg that ends at that waypoint, and more than 20% into the leg it lies in;
\* never while the traveler is on or before the leg that ends at the waypoint.
C11_FadeOnlyAfterWaypoint ==
    [][\A w \in 1..Len(state'.waypointFadedOut) :
          (~FadedBefore(w) /\ state'.waypointFadedOut[w]) =>
              /\ CallSegment'.currentSegment > WaypointLeg(w, 0)
              /\ CallSegment'.spn * 5 > CallSegment'.spd]_vars

\* C12: after any renderFrame call at most one of the four traveler icons has full
\* opacity, and after an end-phase call none has.
C12_AtMostOneIcon ==
    /\ Cardinality({k \in DOMAIN elements : elements[k] = 1}) <= 1
    /\ call.phase = "end" => \A k \in DOMAIN elements : elements[k] = 0

\* C12 witness: an icon was shown on the route, and the end phase has hidden it.
C12_Witness ==
    /\ driver = "core" /\ call.phase = "end" /\ state.endMarkerPlaced
    /\ Len(pauseLog) >= 1 /\ \A k \in DOMAIN elements : elements[k] = 0

IconWillChange(cur) ==
    /\ cur + 1 < Len(routeSegments)
    /\ routeSegments[cur + 2].icon # routeSegments[cur + 1].icon

CallDrew == call.phase = "route" /\ ~call.result.shouldPause

LegCount == Len(routeSegments)

\* thresholds[k - 1] as a cumulative count, 0 before the first leg
ThresholdBefore(k) == IF k = 0 THEN 0 ELSE config.segmentProgressThresholds[k]

\* C14: as progress sweeps from 0 to 1 the leg index getSegmentInfo returns never
\* decreases and lies in 0..N-1, every leg has been returned once the sweep reaches 1,
\* and segmentProgress lies in [0,1].
C14_SegmentsCoverRoute ==
    (driver = "segments" /\ zu.called) =>
        /\ zu.info.currentSegment \in 0..(LegCount - 1)
        /\ zu.prev <= zu.info.currentSegment
        /\ zu.info.spd > 0 /\ 0 <= zu.info.spn /\ zu.info.spn <= zu.info.spd
        /\ zu.pn >= zu.pd => zu.seen = 0..(LegCount - 1)

\* C14 witness: the sweep over a three-leg route has reached progress 1.
C14_Witness ==
    /\ driver = "segments" /\ zu.called /\ LegCount = 3
    /\ zu.pn = zu.pd /\ zu.seen = {0, 1, 2} /\ zu.info.currentSegment = 2

\* C15: the current leg is the first whose threshold is strictly greater than
\* progress: leg i exactly for thresholds[i-1] <= progress < thresholds[i], with local
\* progress 0 at a threshold; the last leg with local progress 1 when no threshold is
\* greater; for two 10-point legs leg 0 covers [0,0.5) and leg 1 covers [0.5,1].
C15_FirstGreaterThreshold ==
    (driver = "segments" /\ zu.called) =>
        /\ IF \E i \in 1..LegCount :
                  zu.pn * config.totalLength < config.segmentProgressThresholds[i] * zu.pd
           THEN /\ ThresholdBefore(zu.info.currentSegment) * zu.pd <= zu.pn * config.totalLength
                /\ zu.pn * config.totalLength < ThresholdBefore(zu.info.currentSegment + 1) * zu.pd
                /\ (zu.info.currentSegment > 0
                      /\ zu.pn * config.totalLength = ThresholdBefore(zu.info.currentSegment) * zu.pd)
                    => zu.info.spn = 0
           ELSE zu.info.currentSegment = LegCount - 1 /\ zu.info.spn = zu.info.spd
        /\ (LegCount = 2 /\ routeSegments[1].len = 10 /\ routeSegments[2].len = 10) =>
              /\ zu.info.currentSegment = 0 <=> 2 * zu.pn < zu.pd
              /\ zu.info.currentSegment = 1 <=> 2 * zu.pn >= zu.pd

\* C15 witness: progress 0.5 on two 10-point legs is the start of leg 1.
C15_Witness ==
    /\ driver = "segments" /\ zu.called
    /\ LegCount = 2 /\ routeSegments[1].len = 10 /\ routeSegments[2].len = 10
    /\ 2 * zu.pn = zu.pd /\ zu.info.currentSegment = 1 /\ zu.info.spn = 0

\* C16: there is one threshold per leg; the thresholds increase, each lies in (0,1],
\* the i-th is the share of the coordinates of legs 0..i, and the last is 1.
C16_Thresholds ==
    (driver = "segments" /\ LegCount > 0) =>
        /\ Len(zu.thresholds) = LegCount
        /\ \A i \in 1..LegCount :
              /\ DoubleLess(DoubleZero, zu.thresholds[i])
              /\ ~DoubleLess(DoubleOne, zu.thresholds[i])
              /\ i > 1 => DoubleLess(zu.thresholds[i - 1], zu.thresholds[i])
              /\ zu.thresholds[i]
                   = DoubleDiv(config.segmentProgressThresholds[i], config.totalLength)
        /\ zu.thresholds[LegCount] = DoubleOne

\* progress pn/zu.pd lies at keyframe k
AtKeyframe(k, pn) == zu.zoomKeyframes[k].cum * zu.pd = pn * config.totalLength

\* progress pn/zu.pd lies between the keyframes k and k+1, ends included
Brackets(k, pn) ==
    /\ zu.zoomKeyframes[k].cum * zu.pd <= pn * config.totalLength
    /\ pn * config.totalLength <= zu.zoomKeyframes[k + 1].cum * zu.pd

\* x <= y for two zooms num/den (a zoom at a keyframe is a whole number)
ZoomLeq(x, y) ==
    IF x.den = y.den THEN x.num <= y.num
    ELSE IF x.num % x.den = 0 THEN (x.num \div x.den) * y.den <= y.num
    ELSE IF y.num % y.den = 0 THEN x.num <= (y.num \div y.den) * x.den
    ELSE x.num * y.den <= y.num * x.den

WholeZoom(z) == [num |-> z, den |-> 1]

\* C17: at a keyframe's exact progress getInterpolatedZoom returns that keyframe's zoom.
C17_ZoomExactAtKeyframes ==
    (driver = "zoom" /\ zu.called) =>
        \A k \in 1..Len(zu.zoomKeyframes) :
            AtKeyframe(k, zu.pn) => zu.zoom.num = zu.zoomKeyframes[k].zoom * zu.zoom.den

\* C17 witness: the zoom was read at a leg boundary where the zoom level changes.
C17_Witness ==
    /\ driver = "zoom" /\ zu.called
    /\ \E k \in 3..(Len(zu.zoomKeyframes) - 1) :
          /\ AtKeyframe(k, zu.pn)
          /\ zu.zoomKeyframes[k].zoom # zu.zoomKeyframes[k - 1].zoom
          /\ zu.zoomKeyframes[k].zoom # zu.zoomKeyframes[k + 1].zoom

\* C18: between two adjacent keyframes the interpolated zoom stays between the two
\* keyframes' zooms and is monotonic in progress, in the direction of the change.
C18_ZoomMonotonicBetweenKeyframes ==
    (driver = "zoom" /\ zu.called) =>
        \A k \in 1..(Len(zu.zoomKeyframes) - 1) :
            Brackets(k, zu.pn) =>
                /\ ZoomLeq(WholeZoom(Min2(zu.zoomKeyframes[k].zoom, zu.zoomKeyframes[k + 1].zoom)),
                           zu.zoom)
                /\ ZoomLeq(zu.zoom,
                           WholeZoom(Max2(zu.zoomKeyframes[k].zoom, zu.zoomKeyframes[k + 1].zoom)))
                /\ (zu.prevZoom # NoZoom /\ Brackets(k, zu.pn - 1)) =>
                      /\ zu.zoomKeyframes[k + 1].zoom >= zu.zoomKeyframes[k].zoom
                            => ZoomLeq(zu.prevZoom, zu.zoom)
                      /\ zu.zoomKeyframes[k + 1].zoom <= zu.zoomKeyframes[k].zoom
                            => ZoomLeq(zu.zoom, zu.prevZoom)

\* C18 witness: two successive reads inside one keyframe interval of a falling zoom,
\* the second strictly between the two keyframes' zooms.
C18_Witness ==
    /\ driver = "zoom" /\ zu.called /\ zu.prevZoom # NoZoom
    /\ \E k \in 1..(Len(zu.zoomKeyframes) - 1) :
          /\ Brackets(k, zu.pn) /\ Brackets(k, zu.pn - 1)
          /\ zu.zoomKeyframes[k + 1].zoom < zu.zoomKeyframes[k].zoom
          /\ zu.zoom.num < zu.zoomKeyframes[k].zoom * zu.zoom.den
          /\ zu.zoom.num > zu.zoomKeyframes[k + 1].zoom * zu.zoom.den

\* C19: for a progress at or below the first keyframe's getInterpolatedZoom returns the
\* first keyframe's zoom, for one at or above the last keyframe's the last one's zoom.
C19_ZoomClampsOutsideKeyframes ==
    (driver = "zoom" /\ zu.called) =>
        /\ zu.pn * config.totalLength <= zu.zoomKeyframes[1].cum * zu.pd
              => zu.zoom.num = zu.zoomKeyframes[1].zoom * zu.zoom.den
        /\ zu.pn * config.totalLength >= zu.zoomKeyframes[Len(zu.zoomKeyframes)].cum * zu.pd
              => zu.zoom.num = zu.zoomKeyframes[Len(zu.zoomKeyframes)].zoom * zu.zoom.den

\* the maxZoom and defaultCloseZoom a call is made with (15 and 14 when not given)
MaxZoomGiven == IF zu.options.maxZoom = Undefined THEN DefaultMaxZoom ELSE zu.options.maxZoom
CloseZoomGiven ==
    IF zu.options.defaultCloseZoom = Undefined THEN DefaultCloseZoom
    ELSE zu.options.defaultCloseZoom

\* C20: a leg with an explicit zoom not above maxZoom gets that zoom unmodified; a leg
\* without one gets its auto-fit zoom raised to at least the overview zoom and
\* defaultCloseZoom, and capped at maxZoom.
C20_ZoomLevels ==
    driver = "zoom" =>
        \A i \in 1..Len(zu.legs) :
            /\ (zu.legs[i].zoomLevel # Null /\ zu.legs[i].zoomLevel <= MaxZoomGiven)
                  => zu.segmentZoomLevels[i] = zu.legs[i].zoomLevel
            /\ zu.legs[i].zoomLevel = Null
                  => zu.segmentZoomLevels[i]
                       = Min2(MaxZoomGiven,
                              Max3(zu.legs[i].autoZoom, zu.overviewZoom, CloseZoomGiven))

\* C20 witness: with maxZoom 15 an explicit zoom of 10 is kept and an auto-fit zoom of 17
\* is capped at 15.
C20_Witness ==
    /\ driver = "zoom" /\ zu.called /\ MaxZoomGiven = 15
    /\ zu.legs = <<ZoomLeg(2, 10, 12), ZoomLeg(3, Null, 17)>>
    /\ zu.segmentZoomLevels = <<10, 15>>

(***************************************************************************)
(* Phase durations of the two drivers                                      *)
(***************************************************************************)
\* the duration of each phase before the pauses are added, in ms, as driver d has it
BaseDurationsOf(d) ==
    IF d = "frames"
    THEN <<F_TITLE_DURATION, F_PAN_DURATION, F_ROUTE_DURATION, F_END_DURATION>>
    ELSE <<P_TITLE_DURATION, P_PAN_DURATION, DefaultAnimationDuration, P_END_DURATION>>

\* C27: the real-time driver and the frame-exact driver give each of the four phases
\* (title, pan, route, end) the same base duration.
C27_SameBaseDurations ==
    driver \in {"frames", "preview"} =>
        \A d \in {"frames", "preview"} : \A i \in 1..4 :
            BaseDurationsOf(d)[i] = BaseDurationsOf(driver)[i]

\* C22: calculateSegmentProgressThresholds raises an error for a route without legs, and
\* only then: it returns its thresholds for every route with at least one non-empty leg.
C22_FailsOnlyOnEmptyRoute ==
    driver = "segments" => (zu.outcome = "threw" <=> LegCount = 0)

\* progress pn/zu.pd lies on leg j (1-based), its two ends included
OnLeg(j, pn) ==
    /\ ThresholdBefore(j - 1) * zu.pd <= pn * config.totalLength
    /\ pn * config.totalLength <= config.segmentProgressThresholds[j] * zu.pd

\* C21: createZoomKeyframes returns N+1 keyframes for N legs, one at progress 0 with leg
\* 0's zoom and then one per leg at the leg's threshold with the leg's zoom, their
\* progress values non-decreasing; so the target zoom is leg 0's zoom throughout leg 0,
\* and during a later leg i it moves from leg i-1's zoom to leg i's zoom.
C21_KeyframesPerLeg ==
    driver = "zoom" =>
        /\ Len(zu.zoomKeyframes) = LegCount + 1
        /\ zu.zoomKeyframes[1] = [cum |-> 0, zoom |-> zu.segmentZoomLevels[1]]
        /\ \A j \in 1..LegCount :
              zu.zoomKeyframes[j + 1] = [cum |-> config.segmentProgressThresholds[j],
                                         zoom |-> zu.segmentZoomLevels[j]]
        /\ \A k \in 1..(Len(zu.zoomKeyframes) - 1) :
              zu.zoomKeyframes[k].cum <= zu.zoomKeyframes[k + 1].cum
        /\ zu.called =>
              \A j \in 1..LegCount :
                  OnLeg(j, zu.pn) =>
                      IF j = 1
                      THEN zu.zoom.num = zu.segmentZoomLevels[1] * zu.zoom.den
                      ELSE /\ ZoomLeq(WholeZoom(Min2(zu.segmentZoomLevels[j - 1],
                                                     zu.segmentZoomLevels[j])), zu.zoom)
                           /\ ZoomLeq(zu.zoom, WholeZoom(Max2(zu.segmentZoomLevels[j - 1],
                                                              zu.segmentZoomLevels[j])))
                           /\ zu.pn * config.totalLength = ThresholdBefore(j - 1) * zu.pd
                                 => zu.zoom.num = zu.segmentZoomLevels[j - 1] * zu.zoom.den
                           /\ zu.pn * config.totalLength
                                 = config.segmentProgressThresholds[j] * zu.pd
                                 => zu.zoom.num = zu.segmentZoomLevels[j] * zu.zoom.den

\* C21 witness: a read of the target zoom strictly inside the last of three legs, on
\* its way from the second leg's zoom to the third's.
C21_Witness ==
    /\ driver = "zoom" /\ zu.called /\ LegCount = 3 /\ Len(zu.zoomKeyframes) = 4
    /\ OnLeg(3, zu.pn) /\ ~OnLeg(2, zu.pn) /\ zu.pn < zu.pd
    /\ zu.segmentZoomLevels[2] # zu.segmentZoomLevels[3]
    /\ zu.zoom.num # zu.segmentZoomLevels[2] * zu.zoom.den
    /\ zu.zoom.num # zu.segmentZoomLevels[3] * zu.zoom.den

(***************************************************************************)
(* Route furniture                                                         *)
(***************************************************************************)
EndMarkerVisible == state.endMarker = 90

\* the last call reveals the end marker: a route-phase call that draws at a progress of
\* at least 0.98, or an end-phase call
RevealingCall ==
    \/ CallDrew /\ ~call.threw /\ call.pn * 100 >= 98 * call.pd
    \/ call.phase = "end"

LabelledWaypoints == LabelledBefore(routeSegments, LegCount - 1)

\* C30: the start marker, the end marker and the waypoint marker/label pairs are each
\* created at most once in a run, and once the route furniture is placed the number of
\* waypoint pairs, and of waypointShown and waypointFadedOut entries, is the number of
\* non-final legs that have a "to" label.
C30_FurnitureCreatedOnce ==
    /\ state.layers.startMarkers <= 1
    /\ state.layers.endMarkers <= 1
    /\ state.layers.waypointPairs = Len(state.waypointMarkers)
    /\ Len(state.waypointLabels) = Len(state.waypointMarkers)
    /\ Len(state.waypointShown) = Len(state.waypointMarkers)
    /\ Len(state.waypointFadedOut) = Len(state.waypointMarkers)
    /\ Len(state.waypointMarkers) = IF state.endMarkerPlaced THEN LabelledWaypoints ELSE 0
    /\ state.layers.endMarkers = IF state.endMarkerPlaced THEN 1 ELSE 0
    /\ state.layers.startMarkers = IF state.startMarkerPlaced THEN 1 ELSE 0

\* C30 witness: on a three-leg route whose first leg has no "to" label, the pan phase
\* and the route phase were both called more than once (the traveler is past the
\* first pause) and there is one waypoint pair.
C30_Witness ==
    /\ driver = "core" /\ LegCount = 3 /\ LabelledWaypoints = 1
    /\ state.layers.startMarkers = 1 /\ state.layers.endMarkers = 1
    /\ state.layers.waypointPairs = 1 /\ state.layers.line
    /\ Len(pauseLog) >= 1 /\ CallDrew

\* what a call that is not in the title phase leaves of a state before it steers the
\* camera or draws: the date stamp and the route furniture are set up if they were not
OnceSetUp(st) ==
    [st EXCEPT !.dateStampShown = TRUE,
               !.iconsSetup = TRUE,
               !.endMarkerPlaced = TRUE,
               !.endMarker = IF st.endMarkerPlaced THEN st.endMarker ELSE 0,
               !.endLabel = IF st.endMarkerPlaced THEN st.endLabel ELSE 0,
               !.layers.endMarkers = IF st.endMarkerPlaced THEN st.layers.endMarkers ELSE 1,
               !.layers.waypointPairs = IF st.endMarkerPlaced THEN st.layers.waypointPairs
                                        ELSE LabelledWaypoints,
               !.waypointMarkers = IF st.endMarkerPlaced THEN st.waypointMarkers
                                   ELSE [i \in 1..LabelledWaypoints |-> 0],
               !.waypointLabels = IF st.endMarkerPlaced THEN st.waypointLabels
                                  ELSE [i \in 1..LabelledWaypoints |-> 0],
               !.waypointShown = IF st.endMarkerPlaced THEN st.waypointShown
                                 ELSE [i \in 1..LabelledWaypoints |-> FALSE],
               !.waypointFadedOut = IF st.endMarkerPlaced THEN st.waypointFadedOut
                                    ELSE [i \in 1..LabelledWaypoints |-> FALSE]]

\* C24: no renderFrame call writes isPaused, pauseProgress or currentPauseDuration, and
\* a call that returns shouldPause = true changes nothing of the state but
\* lastPausedAfterSegment and the one-time setup: camera, path overlay, waypoint flags
\* and icons are as the previous call left them.
C24_CoreKeepsNoTime ==
    [][/\ state'.isPaused = state.isPaused
       /\ state'.pauseProgress = state.pauseProgress
       /\ state'.currentPauseDuration = state.currentPauseDuration
       /\ call'.result.shouldPause =>
             /\ elements' = elements
             /\ state' = [OnceSetUp(state) EXCEPT
                             !.lastPausedAfterSegment = call'.result.pauseAtSegment]]_vars

\* C24 witness: a pause was requested after a call had drawn the route: the camera is on
\* the route, a path is on the map, a waypoint label was shown and an icon is visible.
C24_Witness ==
    /\ driver = "core" /\ call.result.shouldPause
    /\ state.camera.on = "route" /\ state.layers.line
    /\ \E w \in 1..Len(state.waypointShown) : state.waypointShown[w]
    /\ \E k \in DOMAIN elements : elements[k] = 1

(***************************************************************************)
(* The path overlay.                                                       *)
(***************************************************************************)
\* where the traveler of the last call is: the leg and the place in it
CallTraveler == TravelerPosition(routeSegments[CallSegment.currentSegment + 1].len, CallSegment)

\* the path up to the last coordinate of the route
WholeRoute ==
    [legs |-> LegCount - 1, index |-> routeSegments[LegCount].len - 1, fn |-> 0, fd |-> 1,
     short |-> FALSE]

\* line a ends at or before the place line b ends at
LineLeq(a, b) ==
    \/ a.legs < b.legs
    \/ a.legs = b.legs /\ a.index < b.index
    \/ a.legs = b.legs /\ a.index = b.index /\ a.fn * b.fd < b.fn * a.fd
    \/ a.legs = b.legs /\ a.index = b.index /\ a.fn * b.fd = b.fn * a.fd
          /\ (a.short \/ ~b.short)

\* C29: after a route-phase call that draws with current leg k, the path on the map is
\* all coordinates of the legs before k and leg k's coordinates up to the traveler's
\* interpolated place (no polyline for a path of a single point); at progress 1 it is
\* every coordinate of every leg; and it never gets shorter as progress increases.
C29_VisiblePath ==
    /\ [](CallDrew =>
            /\ state.layers.line <=> (CallSegment.currentSegment > 0 \/ CallTraveler.index > 0
                                          \/ CallTraveler.fn > 0)
            /\ state.layers.line =>
                  /\ state.animatedLine.legs = CallSegment.currentSegment
                  /\ state.animatedLine.index = CallTraveler.index
                  /\ state.animatedLine.fn * CallTraveler.fd
                        = CallTraveler.fn * state.animatedLine.fd
            /\ call.pn = call.pd => state.layers.line /\ state.animatedLine = WholeRoute)
    /\ [][(driver = "sweep" /\ CallDrew' /\ state.layers.line) =>
             /\ state'.layers.line
             /\ LineLeq(state.animatedLine, state'.animatedLine)]_vars

(***************************************************************************)
(* Icon orientation.                                                       *)
(***************************************************************************)
PedestrianKinds == {"person", "backpacker"}

\* the mirror flag of a pedestrian kind moving left (dx < 0) or not
PedestrianMirror(kind, dx) ==
    IF kind = "backpacker" THEN (IF dx < 0 THEN 1 ELSE -1) ELSE (IF dx < 0 THEN -1 ELSE 1)

VehicleKinds == {"bike", "car"}

\* the angle a caller's orientation steers a vehicle kind to
TargetAngle(caller, iconType, hd) ==
    IF caller = "icon-renderer" THEN NormalizeAngle(AngleSub(Degrees(180), DirectionOf(hd)))
    ELSE IF caller = "part_007" THEN NormalizeAngle(DirectionOf(hd))
    ELSE IF iconType = "car" THEN CarTilt(DirectionOf(hd))
    ELSE BikeTilt(DirectionOf(hd))

\* the dead-band of a caller's smoothing: 0.5 degrees, 5 in renderFrame
DeadBand(caller) == IF caller = "map-init" THEN Degrees(5) ELSE Angle(FALSE, DoubleHalf)

\* the calls after which the angle has settled from any start: 180 * 0.85^37 < 0.5 and
\* 180 * 0.97^118 < 5
SettleCalls(caller) == IF caller = "map-init" THEN 118 ELSE 37

\* the way left, the shorter way round, from angle a to the target of the run
WayLeft(a) == NormalizeAngle(AngleSub(TargetAngle(zu.caller, zu.iconType, zu.hd), a))

Settled(a) == ~AngleLess(DeadBand(zu.caller), AngleAbs(WayLeft(a)))

\* C25: with a vehicle kind and one heading held over consecutive calls, a call given an
\* angle outside the dead-band of the target returns one nearer to the target on the
\* same side of it (no overshoot), by at least 1/16 of a degree; after 37 calls (118 in
\* renderFrame) the angle is within the dead-band; and a call given an angle within
\* the dead-band returns that very angle.
C25_RotationSettles ==
    (driver = "icons" /\ zu.called /\ zu.iconType \in VehicleKinds) =>
        /\ zu.transform.angle = zu.lastAngle
        /\ Settled(zu.given) => zu.lastAngle = zu.given
        /\ ~Settled(zu.given) =>
              /\ WayLeft(zu.lastAngle).neg = WayLeft(zu.given).neg
              /\ ~AngleLess(AngleAbs(WayLeft(zu.given)),
                            AngleAdd(AngleAbs(WayLeft(zu.lastAngle)),
                                     Angle(FALSE, <<Limb \div 16, 0, 0>>)))
        /\ zu.calls >= SettleCalls(zu.caller) => Settled(zu.lastAngle)

\* C25 witness: a car turned by calculateIconTransform from -180 degrees toward 135, the
\* shorter way across the wrap, has settled and has since been returned unchanged; the
\* run took all of the 37 calls.
C25_Witness ==
    /\ driver = "icons" /\ zu.caller = "icon-renderer" /\ zu.iconType = "car"
    /\ zu.hd = <<10, 10>> /\ zu.start = Degrees(-180)
    /\ zu.idle = MaxIdleTurns /\ Settled(zu.lastAngle)
    /\ AngleLess(Degrees(135), zu.lastAngle)

\* the icon kind of the leg the last call's progress lies in
CallKind == routeSegments[CallSegment.currentSegment + 1].icon

\* C23: the last angle is kept per icon kind: a renderFrame call changes the stored
\* angle of no kind but that of the leg it draws, and the angle it stores for that
\* kind is smoothed from the kind's own last angle, never from another kind's.
C23_AnglePerKind ==
    [][driver = "headings" =>
          \A k \in DOMAIN state.lastAngles :
              state'.lastAngles[k] # state.lastAngles[k] =>
                  /\ CallDrew' /\ CallKind' = k
                  /\ state'.lastAngles[k]
                        = TiltedToward(TargetAngle("map-init", k, zu'.hd), state.lastAngles[k])
                  /\ state'.transforms[IconElementOf(k)].rotate = state'.lastAngles[k]]_vars

\* C23 witness: after the switch from the car to the bike both kinds have been turned:
\* the bike is shown at its own angle, which differs from the car's.
C23_Witness ==
    /\ driver = "headings" /\ CallDrew /\ CallKind = "bike" /\ elements["motorcycle"] = 1
    /\ state.lastAngles.car # Degrees(0) /\ state.lastAngles.bike # Degrees(0)
    /\ state.lastAngles.bike # state.lastAngles.car
    /\ state.transforms["motorcycle"].rotate = state.lastAngles.bike
    /\ state.transforms["car"].rotate = state.lastAngles.car

(***************************************************************************)
(* The title phase                                                         *)
(***************************************************************************)
\* C31: the title phase frames the camera to the whole-route bounding box on the
\* first title call only: the first title call of a run calls fitBounds once, and no
\* later title call, whatever its phaseProgress, calls it again.
C31_OverviewOnFirstCallOnly ==
    [][call'.phase = "title" =>
          state'.layers.fitBounds = (IF state.titleCardShown THEN state.layers.fitBounds ELSE 1)]_vars

(***************************************************************************)
(* Route progress and pauses in the drivers                                *)
(***************************************************************************)
\* C32: in the frame-exact driver the route progress passed to renderFrame never
\* decreases from one rendered frame to a later one.
C32_RouteProgressNeverDecreases ==
    [][(driver = "frames" /\ call.phase = "route" /\ call'.phase = "route")
          => call'.pn * call.pd >= call.pn * call'.pd]_vars

\* C33: in the real-time driver the pauses lengthen the run only by the time spent
\* frozen: the route progress of a call is the non-paused time gone by since the
\* start of the route phase over the configured route duration (at most 1).
C33_RouteTakesRouteDuration ==
    (driver = "preview" /\ call.phase = "route") =>
        call.pn * DefaultAnimationDuration
            = Min2(pv.elapsed - P_TITLE_DURATION - P_PAN_DURATION, DefaultAnimationDuration)
              * call.pd

\* the leg after which the last call asked for a pause
PausedLeg == call.result.pauseAtSegment

\* C34: while a pause after leg k is held the picture left on the map shows leg k
\* finished: the path drawn holds all coordinates of the legs 0..k and nothing more,
\* and the traveler (which the camera follows) rests at leg k's last coordinate.
C34_PauseShowsLegFinished ==
    call.result.shouldPause =>
        /\ state.layers.line
        /\ state.animatedLine.legs = PausedLeg
        /\ state.animatedLine.index = routeSegments[PausedLeg + 1].len - 1
        /\ state.animatedLine.fn = 0
        /\ state.camera = [on |-> "route", at |-> state.animatedLine]

\* C35: in the frame-exact driver every pause starts and ends inside the route phase:
\* while the driver is paused the frame it is going to skip next is a frame of the
\* route phase, so no frame of the end phase goes by without a call of renderFrame.
C35_PausesInsideRoutePhase ==
    (driver = "frames" /\ fx.pauseState.isPaused) => fx.frame < fx.plan.routeEndFrame

(***************************************************************************)
(* The camera's target zoom                                                *)
(***************************************************************************)
\* C36: with an overview inside the configured maxZoom, the target zoom the camera is
\* steered toward never exceeds maxZoom, in the pan phase (toward closeZoom) and in
\* the route phase (the interpolated zoom), whatever zoomLevel the legs and the
\* start give.
C36_TargetZoomWithinMaxZoom ==
    (driver = "zoom" /\ zu.overviewZoom <= EffectiveMaxZoom(zu.options)) =>
        /\ zu.pan.num <= EffectiveMaxZoom(zu.options) * zu.pan.den
        /\ zu.zoom.num <= EffectiveMaxZoom(zu.options) * zu.zoom.den

(***************************************************************************)
(* The legs of a running preview                                           *)
(***************************************************************************)
\* C37: throughout a preview the leg list passed to renderFrame is the list the run's
\* Config was computed from: at every call of renderFrame the Config is the one
\* createAnimationConfig gives for the legs passed.
C37_LegsOfTheRunningPreview ==
    [][(driver = "preview" /\ call' # call) => config = createAnimationConfig(routeSegments')]_vars

(***************************************************************************)
(* C38: the recording server runs at most one recording at a time under    *)
(* any interleaving of requests: a POST /api/record received while         *)
(* isRecording is true is answered 409 and starts nothing; and after every *)
(* started recording, whether it succeeds or fails, isRecording eventually *)
(* returns to false, and a request with route segments received then       *)
(* starts a recording.                                                     *)
(***************************************************************************)
RecordAnswered == server'.response # server.response /\ server'.response.to = "record"

C38_OneRecordingAtATime ==
    /\ [](driver = "server" => Len(server.recordings) <= 1)
    /\ [][(driver = "server" /\ server.isRecording) =>
              /\ Len(server'.recordings) <= Len(server.recordings)
              /\ RecordAnswered => server'.response.code = 409]_vars
    /\ [][(driver = "server" /\ ~server.isRecording /\ RecordAnswered) =>
              server'.response.code \in {200, 400}]_vars
    /\ (driver = "server" /\ server.isRecording) ~> ~server.isRecording

C38_Witness ==
    /\ driver = "server"
    /\ server.response.to = "record"
    /\ server.response.code = 409
    /\ server.recordings = <<Len(Awaits)>>
    /\ server.isRecording

(***************************************************************************)
(* C39: at every point where a request can observe the server state, a     *)
(* progress status of 'complete' or 'error' implies that isRecording is    *)
(* false: no answer of GET /api/status reports such a status together with *)
(* isRecording true, and a POST /api/record received at such a point is    *)
(* not answered 409.                                                       *)
(***************************************************************************)
Finished(progress) == progress.status \in {"complete", "error"}

C39_FinishedMeansNotRecording ==
    /\ [](driver = "server" =>
            /\ (BetweenTasks(server) /\ Finished(server.recordingProgress))
                   => ~server.isRecording
            /\ (server.response.to = "status" /\ Finished(server.response.progress))
                   => ~server.response.isRecording)
    /\ [][(driver = "server" /\ Finished(server.recordingProgress) /\ RecordAnswered)
              => server'.response.code # 409]_vars

C39_Witness ==
    /\ driver = "server"
    /\ server.response.to = "status"
    /\ server.response.progress.status = "error"
    /\ server.response.progress.phase = "error"
    /\ ~server.response.isRecording
    /\ server.recordingProgress.status = "error"

====
